---- MODULE Spec2Model ----
(***************************************************************************)
(* Model of phylofriend's genetic distance engine (package genetic).       *)
(* float64 values are modelled as exact rationals; marker values and       *)
(* mutation rates are integral float64 values and are kept as integers.    *)
(***************************************************************************)
EXTENDS Integers, Sequences, FiniteSets, TLC

\* ---------------------------------------------------------------- layout
\* Marker positions, genetic.go const block.
MaxMarkers == 587
NDYS464ext == 4
DYS389i == 9
DYS389ii == 11
DYS464start == 21
DYS464end == 24
DYS464extStart == MaxMarkers
DYS464extEnd == MaxMarkers + NDYS464ext - 1
CDYstart == 33
CDYend == 34
DYF395S1start == 39
DYF395S1end == 40
DYS413start == 48
DYS413end == 49
YCAIIstart == 27
YCAIIend == 28
DYS526start == 479
DYS526end == 480
DYS527start == 481
DYS527end == 482
DYS528start == 483
DYS528end == 484
DYS725start == 485
DYS725end == 488
DYF371start == 489
DYF371end == 492
DYF380start == 493
DYF380end == 494
DYF381start == 495
DYF381end == 496
DYF383start == 497
DYF383end == 498
DYF384start == 499
DYF384end == 500
DYF385start == 501
DYF385end == 502
DYF386start == 503
DYF386end == 506
DYF387start == 507
DYF387end == 508
DYF391start == 509
DYF391end == 510
DYF396start == 511
DYF396end == 512
DYF398start == 513
DYF398end == 514
DYF399start == 515
DYF399end == 517
DYF400start == 518
DYF400end == 519
DYF401start == 520
DYF401end == 521
DYF403start == 522
DYF403end == 523
DYF404start == 524
DYF404end == 525
DYF405start == 526
DYF405end == 527
DYF407start == 528
DYF407end == 529
DYF408start == 530
DYF408end == 531
DYF409start == 532
DYF409end == 533
DYF410start == 534
DYF410end == 535
DYF411start == 536
DYF411end == 537
DYF412start == 538
DYF412end == 539
DYR9start == 540
DYR9end == 541
DYR17start == 542
DYR17end == 544
DYR18start == 545
DYR18end == 546
DYR35start == 547
DYR35end == 548
DYR36start == 549
DYR36end == 550
DYR38start == 551
DYR38end == 552
DYR45start == 553
DYR45end == 555
DYR58start == 556
DYR58end == 557
DYR63start == 558
DYR63end == 559
DYR64start == 560
DYR64end == 561
DYR66start == 562
DYR66end == 563
DYR67start == 564
DYR67end == 567
DYR68start == 568
DYR68end == 571
DYR88start == 572
DYR88end == 573
DYR121start == 574
DYR121end == 575
DYR122start == 576
DYR122end == 577
DYR124start == 578
DYR124end == 580
DYR125start == 581
DYR125end == 582
DYR128start == 583
DYR128end == 584
DYR132start == 585
DYR132end == 586

\* palindromicRegions: start and end index of each palindromic marker
\* outside the Family Tree DNA 111 marker range.
palindromicRegions ==
  << <<DYS526start, DYS526end>>,
     <<DYS527start, DYS527end>>,
     <<DYS528start, DYS528end>>,
     <<DYS725start, DYS725end>>,
     <<DYF371start, DYF371end>>,
     <<DYF380start, DYF380end>>,
     <<DYF381start, DYF381end>>,
     <<DYF383start, DYF383end>>,
     <<DYF384start, DYF384end>>,
     <<DYF385start, DYF385end>>,
     <<DYF386start, DYF386end>>,
     <<DYF387start, DYF387end>>,
     <<DYF391start, DYF391end>>,
     <<DYF396start, DYF396end>>,
     <<DYF398start, DYF398end>>,
     <<DYF399start, DYF399end>>,
     <<DYF400start, DYF400end>>,
     <<DYF401start, DYF401end>>,
     <<DYF403start, DYF403end>>,
     <<DYF404start, DYF404end>>,
     <<DYF405start, DYF405end>>,
     <<DYF407start, DYF407end>>,
     <<DYF408start, DYF408end>>,
     <<DYF409start, DYF409end>>,
     <<DYF410start, DYF410end>>,
     <<DYF411start, DYF411end>>,
     <<DYF412start, DYF412end>>,
     <<DYR9start, DYR9end>>,
     <<DYR17start, DYR17end>>,
     <<DYR18start, DYR18end>>,
     <<DYR35start, DYR35end>>,
     <<DYR36start, DYR36end>>,
     <<DYR38start, DYR38end>>,
     <<DYR45start, DYR45end>>,
     <<DYR58start, DYR58end>>,
     <<DYR63start, DYR63end>>,
     <<DYR64start, DYR64end>>,
     <<DYR66start, DYR66end>>,
     <<DYR67start, DYR67end>>,
     <<DYR68start, DYR68end>>,
     <<DYR88start, DYR88end>>,
     <<DYR121start, DYR121end>>,
     <<DYR122start, DYR122end>>,
     <<DYR124start, DYR124end>>,
     <<DYR125start, DYR125end>>,
     <<DYR128start, DYR128end>>,
     <<DYR132start, DYR132end>> >>

\* YstrMarkers is [MaxMarkers + NDYS464ext]float64, indexed from 0.
Slots == 0 .. (MaxMarkers + NDYS464ext - 1)

\* ------------------------------------------------------------ float64
\* A float64 is <<n, d>>: the rational n/d in lowest terms with d > 0,
\* or NaN (0/0), +Inf (1/0), -Inf (-1/0) as Go's division produces them.
NaN == <<0, 0>>
PosInf == <<1, 0>>
NegInf == <<-1, 0>>
Zero == <<0, 1>>

IAbs(x) == IF x < 0 THEN -x ELSE x

RECURSIVE Gcd(_, _)
Gcd(a, b) == IF b = 0 THEN a ELSE Gcd(b, a % b)

Norm(n, d) ==
  IF d = 0 THEN (IF n = 0 THEN NaN ELSE IF n > 0 THEN PosInf ELSE NegInf)
  ELSE IF n = 0 THEN Zero
  ELSE LET g == Gcd(IAbs(n), IAbs(d))
           s == IF d < 0 THEN -1 ELSE 1
       IN  <<(s * n) \div g, (s * d) \div g>>

FromInt(k) == <<k, 1>>
IsNaN(x) == x = NaN
IsFinite(x) == x[2] # 0

\* x + y, with IEEE results for NaN and the infinities.
FAdd(x, y) ==
  IF x = Zero THEN y
  ELSE IF y = Zero THEN x
  ELSE IF IsNaN(x) \/ IsNaN(y) THEN NaN
  ELSE IF ~IsFinite(x) THEN (IF ~IsFinite(y) /\ y # x THEN NaN ELSE x)
  ELSE IF ~IsFinite(y) THEN y
  ELSE Norm(x[1] * y[2] + y[1] * x[2], x[2] * y[2])

\* x * y
FMul(x, y) ==
  IF IsNaN(x) \/ IsNaN(y) THEN NaN
  ELSE IF ~IsFinite(x) \/ ~IsFinite(y)
       THEN (IF x[1] = 0 \/ y[1] = 0 THEN NaN
             ELSE IF (x[1] > 0) = (y[1] > 0) THEN PosInf ELSE NegInf)
  ELSE Norm(x[1] * y[1], x[2] * y[2])

\* x / float64(k) for an integral k
FDivInt(x, k) ==
  IF IsNaN(x) THEN NaN
  ELSE IF ~IsFinite(x) THEN (IF k = 0 THEN x ELSE IF k > 0 THEN x ELSE <<-x[1], 0>>)
  ELSE Norm(x[1], x[2] * k)

\* math.Trunc: the integer part, rounded toward zero; NaN and Inf unchanged.
Trunc(x) ==
  IF ~IsFinite(x) THEN x
  ELSE IF x[1] >= 0 THEN FromInt(x[1] \div x[2])
  ELSE FromInt(-((-x[1]) \div x[2]))

\* ----------------------------------------------------------- distance
\* ystr[a : b+1] as a sequence
slice(ystr, a, b) == [k \in 1 .. (b - a + 1) |-> ystr[a + k - 1]]

concat(s1, s2) == s1 \o s2

Positive(v) == v > 0

\* A stepwise model that compares a marker whatever its mutation rate.
stepwiseAnyRate(marker1, marker2, mutationRate) ==
  IF marker1 > 0 /\ marker2 > 0
  THEN <<Norm(IAbs(marker1 - marker2), mutationRate), 1>>
  ELSE <<Zero, 0>>

\* One marker under the stepwise model: <<distance, increment of nCompared>>.
stepwise(marker1, marker2, mutationRate) ==
  IF marker1 > 0 /\ marker2 > 0 /\ mutationRate > 0
  THEN <<Norm(IAbs(marker1 - marker2), mutationRate), 1>>
  ELSE <<Zero, 0>>

\* An infinite alleles model that counts the repeats between the values.
infiniteByRepeats(marker1, marker2, mutationRate) ==
  IF marker1 > 0 /\ marker2 > 0 /\ mutationRate > 0
  THEN <<Norm(IAbs(marker1 - marker2), mutationRate), 1>>
  ELSE <<Zero, 0>>

\* One marker under the infinite alleles model.
infinite(marker1, marker2, mutationRate) ==
  IF marker1 > 0 /\ marker2 > 0 /\ mutationRate > 0
  THEN <<IF marker1 # marker2 THEN Norm(1, mutationRate) ELSE Zero, 1>>
  ELSE <<Zero, 0>>

\* A choice of model that takes the infinite alleles model whatever is asked.
singleDistanceInfiniteOnly(isInfiniteAlleles, marker1, marker2, mutationRate) ==
  infinite(marker1, marker2, mutationRate)

singleDistance(isInfiniteAlleles, marker1, marker2, mutationRate) ==
  IF isInfiniteAlleles THEN infinite(marker1, marker2, mutationRate)
  ELSE stepwise(marker1, marker2, mutationRate)

\* A distance of DYS389ii that leaves DYS389i in it.
distanceDYS389iiWhole(aDYS389i, aDYS389ii, bDYS389i, bDYS389ii) ==
  IAbs(aDYS389ii - bDYS389ii)

distanceDYS389ii(aDYS389i, aDYS389ii, bDYS389i, bDYS389ii) ==
  IAbs((aDYS389ii - aDYS389i) - (bDYS389ii - bDYS389i))

distanceDYS389iiInfiniteAlleles(aDYS389i, aDYS389ii, bDYS389i, bDYS389ii) ==
  IF aDYS389ii - aDYS389i # bDYS389ii - bDYS389i THEN 1 ELSE 0

\* The matching loop of distancePalindromic: values of list1 from index i on
\* are matched against list2; a matched value of list2 is set to 0.
RECURSIVE matchLoop(_, _, _, _)
matchLoop(list1, list2, i, distance) ==
  IF i > Len(list1) THEN distance
  ELSE LET hits == {j \in 1 .. Len(list2) : list1[i] = list2[j]}
       IN  IF hits = {} THEN matchLoop(list1, list2, i + 1, distance + 1)
           ELSE LET j == CHOOSE m \in hits : \A k \in hits : m <= k
                IN  matchLoop(list1, [list2 EXCEPT ![j] = 0], i + 1, distance)

\* A palindromic distance that compares the values position by position.
distancePalindromicByPosition(ystr1, ystr2, mutationRate) ==
  IF mutationRate = 0 THEN Zero
  ELSE Norm(Cardinality({k \in 1 .. Len(ystr1) : ystr1[k] # ystr2[k]}), mutationRate)

\* A palindromic distance that counts different lengths by their difference.
distancePalindromicBySizes(ystr1, ystr2, mutationRate) ==
  IF mutationRate = 0 THEN Zero
  ELSE LET list1 == SelectSeq(ystr1, Positive)
           list2 == SelectSeq(ystr2, Positive)
           swap == Len(list1) > Len(list2)
           first == IF swap THEN list2 ELSE list1
           second == IF swap THEN list1 ELSE list2
       IN  Norm(matchLoop(first, second, 1, Len(second) - Len(first)), mutationRate)

\* A palindromic distance that matches the values of the first person
\* against those of the second, whichever has fewer.
distancePalindromicFirstInSecond(ystr1, ystr2, mutationRate) ==
  IF mutationRate = 0 THEN Zero
  ELSE LET list1 == SelectSeq(ystr1, Positive)
           list2 == SelectSeq(ystr2, Positive)
       IN  Norm(matchLoop(list1, list2, 1, IF Len(list1) # Len(list2) THEN 1 ELSE 0),
                mutationRate)

distancePalindromic(ystr1, ystr2, mutationRate) ==
  IF mutationRate = 0 THEN Zero
  ELSE LET list1 == SelectSeq(ystr1, Positive)
           list2 == SelectSeq(ystr2, Positive)
           differ == Len(list1) # Len(list2)
           swap == Len(list1) > Len(list2)
           first == IF swap THEN list2 ELSE list1
           second == IF swap THEN list1 ELSE list2
       IN  Norm(matchLoop(first, second, 1, IF differ THEN 1 ELSE 0), mutationRate)

\* A validity test that lets negative values pass.
isValidPalindromicAnySign(ystr1, ystr2, mutationRate) ==
  /\ mutationRate # 0
  /\ \E k \in 1 .. Len(ystr1) : ystr1[k] > 0
  /\ \E k \in 1 .. Len(ystr2) : ystr2[k] > 0

\* A validity test that asks for a mutation rate above 0.
isValidPalindromicPositiveRate(ystr1, ystr2, mutationRate) ==
  /\ mutationRate > 0
  /\ \A k \in 1 .. Len(ystr1) : ~(ystr1[k] < 0)
  /\ \A k \in 1 .. Len(ystr2) : ~(ystr2[k] < 0)
  /\ \E k \in 1 .. Len(ystr1) : ystr1[k] > 0
  /\ \E k \in 1 .. Len(ystr2) : ystr2[k] > 0

isValidPalindromic(ystr1, ystr2, mutationRate) ==
  /\ mutationRate # 0
  /\ \A k \in 1 .. Len(ystr1) : ~(ystr1[k] < 0)
  /\ \A k \in 1 .. Len(ystr2) : ~(ystr2[k] < 0)
  /\ \E k \in 1 .. Len(ystr1) : ystr1[k] > 0
  /\ \E k \in 1 .. Len(ystr2) : ystr2[k] > 0

\* The closure palindromic of distance: <<distance, increment of nCompared>>.
palindromic(markers1, markers2, mutationRate) ==
  IF isValidPalindromic(markers1, markers2, mutationRate)
  THEN <<distancePalindromic(markers1, markers2, mutationRate), Len(markers1)>>
  ELSE <<Zero, 0>>

\* Pairs <<distance, increment of nCompared>> add componentwise.
Plus(x, y) == <<FAdd(x[1], y[1]), x[2] + y[2]>>

\* sum(distances) restricted to distances[lo .. hi-1] as a loop
\* for i := lo; i < hi; i++ { distances[i] = singleDistance(...) } leaves them.
\* A stretch whose entries are all 0 adds 0 and is not descended into; the
\* rationals add exactly, so the halving order gives the same total as the
\* left-to-right loop of sum().
RECURSIVE singleSum(_, _, _, _, _, _)
singleSum(ystr1, ystr2, mutationRates, isInfiniteAlleles, lo, hi) ==
  IF \A i \in lo .. (hi - 1) :
        singleDistance(isInfiniteAlleles, ystr1[i], ystr2[i], mutationRates[i])[1] = Zero
  THEN Zero
  ELSE IF hi = lo + 1
       THEN singleDistance(isInfiniteAlleles, ystr1[lo], ystr2[lo], mutationRates[lo])[1]
  ELSE LET mid == (lo + hi) \div 2
       IN  FAdd(singleSum(ystr1, ystr2, mutationRates, isInfiniteAlleles, lo, mid),
                singleSum(ystr1, ystr2, mutationRates, isInfiniteAlleles, mid, hi))

\* The loop for i := lo; i < hi; i++ { distances[i] = singleDistance(...) }:
\* the sum of the distances it stores and the number of nCompared++ it makes.
singleLoop(ystr1, ystr2, mutationRates, isInfiniteAlleles, lo, hi) ==
  <<singleSum(ystr1, ystr2, mutationRates, isInfiniteAlleles, lo, hi),
    Cardinality({i \in lo .. (hi - 1) :
       singleDistance(isInfiniteAlleles, ystr1[i], ystr2[i], mutationRates[i])[2] = 1})>>

DYS389exists(ystr1, ystr2) ==
  ystr1[DYS389i] > 0 /\ ystr2[DYS389i] > 0 /\ ystr1[DYS389ii] > 0 /\ ystr2[DYS389ii] > 0

\* distances[DYS389ii] and its increment of nCompared
compoundDYS389ii(ystr1, ystr2, mutationRates, isInfiniteAlleles) ==
  IF DYS389exists(ystr1, ystr2) /\ mutationRates[DYS389ii] > 0
  THEN <<Norm(IF isInfiniteAlleles
              THEN distanceDYS389iiInfiniteAlleles(ystr1[DYS389i], ystr1[DYS389ii],
                                                   ystr2[DYS389i], ystr2[DYS389ii])
              ELSE distanceDYS389ii(ystr1[DYS389i], ystr1[DYS389ii],
                                    ystr2[DYS389i], ystr2[DYS389ii]),
              mutationRates[DYS389ii]), 1>>
  ELSE <<Zero, 0>>

\* A DYS464 that counts as many markers as it has slots.
palindromicDYS464BySlots(ystr1, ystr2, mutationRates) ==
  LET values1 == concat(slice(ystr1, DYS464start, DYS464end),
                        slice(ystr1, DYS464extStart, DYS464extEnd))
      values2 == concat(slice(ystr2, DYS464start, DYS464end),
                        slice(ystr2, DYS464extStart, DYS464extEnd))
  IN  palindromic(values1, values2, mutationRates[DYS464end])

\* distances[DYS464end]: the four canonical slots and the four extra slots
\* are put back together; the marker counts as four.
palindromicDYS464(ystr1, ystr2, mutationRates) ==
  LET values1 == concat(slice(ystr1, DYS464start, DYS464end),
                        slice(ystr1, DYS464extStart, DYS464extEnd))
      values2 == concat(slice(ystr2, DYS464start, DYS464end),
                        slice(ystr2, DYS464extStart, DYS464extEnd))
  IN  IF isValidPalindromic(values1, values2, mutationRates[DYS464end])
      THEN <<distancePalindromic(values1, values2, mutationRates[DYS464end]),
             DYS464end - DYS464start + 1>>
      ELSE <<Zero, 0>>

\* distances[end] = palindromic(ystr1[start:end+1], ystr2[start:end+1], mutationRates[end])
palindromicAt(ystr1, ystr2, mutationRates, start, end) ==
  palindromic(slice(ystr1, start, end), slice(ystr2, start, end), mutationRates[end])

\* for _, region := range palindromicRegions, entries lo .. hi-1 (halved
\* like singleLoop).
RECURSIVE regionLoop(_, _, _, _, _)
regionLoop(ystr1, ystr2, mutationRates, lo, hi) ==
  IF hi <= lo THEN <<Zero, 0>>
  ELSE IF hi = lo + 1
       THEN palindromicAt(ystr1, ystr2, mutationRates,
                          palindromicRegions[lo][1], palindromicRegions[lo][2])
  ELSE LET mid == (lo + hi) \div 2
       IN  Plus(regionLoop(ystr1, ystr2, mutationRates, lo, mid),
                regionLoop(ystr1, ystr2, mutationRates, mid, hi))

\* The sum of the distances, not divided by the number of compared markers.
averageNotDivided(total, nCompared) == total

\* average: sum(distances) / float64(nCompared)
average(total, nCompared) == FDivInt(total, nCompared)

\* <<sum(distances), nCompared>> at the end of distance, statement by statement.
distanceTotals(ystr1, ystr2, mutationRates, isInfiniteAlleles) ==
  LET single(lo, hi) == singleLoop(ystr1, ystr2, mutationRates, isInfiniteAlleles, lo, hi)
      pal(start, end) == palindromicAt(ystr1, ystr2, mutationRates, start, end)
  IN  Plus(single(0, DYS389ii),
      Plus(compoundDYS389ii(ystr1, ystr2, mutationRates, isInfiniteAlleles),
      Plus(single(DYS389ii + 1, DYS464start),
      Plus(palindromicDYS464(ystr1, ystr2, mutationRates),
      Plus(single(DYS464end + 1, YCAIIstart),
      Plus(pal(YCAIIstart, YCAIIend),
      Plus(single(YCAIIend + 1, CDYstart),
      Plus(pal(CDYstart, CDYend),
      Plus(single(CDYend + 1, DYF395S1start),
      Plus(pal(DYF395S1start, DYF395S1end),
      Plus(single(DYF395S1end + 1, DYS413start),
      Plus(pal(DYS413start, DYS413end),
      Plus(single(DYS413end + 1, DYS526start),
           regionLoop(ystr1, ystr2, mutationRates, 1, Len(palindromicRegions) + 1))))))))))))))

distance(ystr1, ystr2, mutationRates, isInfiniteAlleles) ==
  LET t == distanceTotals(ystr1, ystr2, mutationRates, isInfiniteAlleles)
  IN  average(t[1], t[2])

DistanceInfiniteAlleles(ystr1, ystr2, mutationRates) ==
  distance(ystr1, ystr2, mutationRates, TRUE)

DistanceHybrid(ystr1, ystr2, mutationRates) ==
  distance(ystr1, ystr2, mutationRates, FALSE)

DefaultMutationRates == [i \in Slots |-> 1]

\* ------------------------------------------------------------- persons
\* type Person struct { ID, Name, Label, Ancestor, Origin string; YstrMarkers }
NewPerson(id, ystr) ==
  [ID |-> id, Name |-> id, Label |-> id, Ancestor |-> "", Origin |-> "",
   YstrMarkers |-> ystr]

\* var result YstrMarkers: every slot value-initialised to 0
ZeroMarkers == [i \in Slots |-> 0]

\* A person tested for the first n markers of the layout, every value v.
Panel(n, v) == [i \in Slots |-> IF i < n THEN v ELSE 0]

\* ------------------------------------------------------ distance matrix
\* DistanceFunc values a caller can pass: the two exported metrics and a
\* function of the caller's own that is not symmetric in its arguments
\* (the signed difference at the first marker).
directed(ystr1, ystr2, mutationRates) == FromInt(ystr1[0] - ystr2[0])

DistanceFuncs == {"DistanceHybrid", "DistanceInfiniteAlleles", "directed"}

Apply(fn, ystr1, ystr2, mutationRates) ==
  CASE fn = "DistanceHybrid" -> DistanceHybrid(ystr1, ystr2, mutationRates)
    [] fn = "DistanceInfiniteAlleles" -> DistanceInfiniteAlleles(ystr1, ystr2, mutationRates)
    [] fn = "directed" -> directed(ystr1, ystr2, mutationRates)

\* A mutation of NewDistanceMatrix: every cell is computed by the distance
\* function instead of mirroring the upper right triangle.
NewDistanceMatrixEveryCell(ps, rates, fn) ==
  [Size |-> Len(ps),
   Values |-> [i \in 1 .. Len(ps) |-> [j \in 1 .. Len(ps) |->
                 Apply(fn, ps[i].YstrMarkers, ps[j].YstrMarkers, rates)]]]

\* NewDistanceMatrix. Rows and columns are numbered from 1 here, from 0 in Go.
NewDistanceMatrix(ps, rates, fn) ==
  LET Size == Len(ps)
      \* the upper right triangle, the other cells still 0
      upper == [i \in 1 .. Size |-> [j \in 1 .. Size |->
                  IF j >= i
                  THEN Apply(fn, ps[i].YstrMarkers, ps[j].YstrMarkers, rates)
                  ELSE Zero]]
  IN  [Size |-> Size,
       \* the lower left triangle is copied from the upper right one
       Values |-> [i \in 1 .. Size |-> [j \in 1 .. Size |->
                     IF j < i THEN upper[j][i] ELSE upper[i][j]]]]

\* A mutation of Years: the product is rounded down (math.Floor).
YearsFloor(dm, generationDistance, calibrationFactor) ==
  LET factor == FMul(generationDistance, calibrationFactor)
      Floor(x) == IF ~IsFinite(x) THEN x
                  ELSE FromInt((x[1] - (x[1] % x[2])) \div x[2])
  IN  [Size |-> dm.Size,
       Values |-> [i \in 1 .. dm.Size |-> [j \in 1 .. dm.Size |->
                     Floor(FMul(factor, dm.Values[i][j]))]]]

\* DistanceMatrix.Years
Years(dm, generationDistance, calibrationFactor) ==
  LET factor == FMul(generationDistance, calibrationFactor)
  IN  [Size |-> dm.Size,
       Values |-> [i \in 1 .. dm.Size |-> [j \in 1 .. dm.Size |->
                     Trunc(FMul(factor, dm.Values[i][j]))]]]

\* ------------------------------------------------------ modal haplotype
\* cMarkers[value]: the number of persons with that value at the marker;
\* only values > 0 are counted, so a value with count 0 is not a key.
countOf(ps, marker, value) ==
  IF value > 0
  THEN Cardinality({k \in 1 .. Len(ps) : ps[k].YstrMarkers[marker] = value})
  ELSE 0

\* for value, count := range cMarkers { if count > max {...} }, the keys
\* visited in the order of the sequence order from its k-th entry on;
\* best is <<max, modalValue>>.
RECURSIVE highestLoop(_, _, _, _, _)
highestLoop(ps, marker, order, k, best) ==
  IF k > Len(order) THEN best
  ELSE LET count == countOf(ps, marker, order[k])
       IN  highestLoop(ps, marker, order, k + 1,
                       IF count > best[1] THEN <<count, order[k]>> ELSE best)

\* for value, count := range cMarkers { if count == max && value < modalValue {...} }
RECURSIVE lowestLoop(_, _, _, _, _, _)
lowestLoop(ps, marker, order, k, max, modalValue) ==
  IF k > Len(order) THEN modalValue
  ELSE LET count == countOf(ps, marker, order[k])
       IN  lowestLoop(ps, marker, order, k + 1, max,
                      IF count > 0 /\ count = max /\ order[k] < modalValue
                      THEN order[k] ELSE modalValue)

\* A mutation of modalValueAt: the loop that chooses the lower of two values
\* with the same frequency is left out.
modalValueFirstSeen(ps, marker, order1, order2) ==
  highestLoop(ps, marker, order1, 1, <<0, 0>>)[2]

\* The modal value of one marker. A Go map is ranged over in an order the
\* language leaves open: order1 and order2 are the orders of the two loops.
modalValueAt(ps, marker, order1, order2) ==
  LET best == highestLoop(ps, marker, order1, 1, <<0, 0>>)
  IN  lowestLoop(ps, marker, order2, 1, best[1], best[2])

\* A ModalHaplotype whose loop runs over every slot of YstrMarkers.
ModalHaplotypeOfAllSlots(ps, order1, order2) ==
  [ID |-> "modal", Name |-> "modal", Label |-> "_____modal",
   Ancestor |-> "modal", Origin |-> "modal",
   YstrMarkers |-> [i \in Slots |-> modalValueAt(ps, i, order1, order2)]]

\* ModalHaplotype
ModalHaplotype(ps, order1, order2) ==
  [ID |-> "modal", Name |-> "modal", Label |-> "_____modal",
   Ancestor |-> "modal", Origin |-> "modal",
   YstrMarkers |-> [i \in Slots |->
      IF i < MaxMarkers THEN modalValueAt(ps, i, order1, order2) ELSE 0]]

\* ----------------------------------------------------------- reduction
\* An index of a YstrMarkers array outside 0 .. len-1 is a run-time panic.
InRange(i) == i \in Slots

\* The first index below nMarkers at which markerSet finds a marker missing:
\* the value is 0 and the index is not strictly between DYS464start and
\* DYS464end. Indices past the array are not reached before it.
missingBelow(ystr, nMarkers) ==
  {i \in 0 .. (nMarkers - 1) :
     InRange(i) /\ ystr[i] = 0 /\ (i <= DYS464start \/ i >= DYS464end)}

\* Person.markerSet: [person, isComplete, panic]. The first loop sets the
\* values from nMarkers to MaxMarkers-1 to 0; the second looks for a
\* missing marker below nMarkers and stops at the first one.
markerSet(p, nMarkers) ==
  LET ystr == [i \in Slots |->
                 IF nMarkers <= i /\ i < MaxMarkers THEN 0 ELSE p.YstrMarkers[i]]
      missing == missingBelow(ystr, nMarkers)
  IN  [person |-> [p EXCEPT !.YstrMarkers = ystr],
       isComplete |-> missing = {},
       panic |-> \/ (nMarkers < MaxMarkers /\ ~InRange(nMarkers))
                 \/ (missing = {} /\ \E i \in 0 .. (nMarkers - 1) : ~InRange(i))]

\* ReduceToMarkerSet: [result, err, panic]; err stands for the error
\* "not enough persons who have tested for so many markers".
ReduceToMarkerSet(ps, nMarkers) ==
  LET sets == [k \in 1 .. Len(ps) |-> markerSet(ps[k], nMarkers)]
      isComplete(k) == sets[k].isComplete
      kept == SelectSeq([k \in 1 .. Len(ps) |-> k], isComplete)
      result == [k \in 1 .. Len(kept) |-> sets[kept[k]].person]
  IN  IF \E k \in 1 .. Len(ps) : sets[k].panic
      THEN [result |-> <<>>, err |-> FALSE, panic |-> TRUE]
      ELSE [result |-> result, err |-> Len(result) < 2, panic |-> FALSE]

\* ---------------------------------------------------------------- state
VARIABLES
  persons,        \* the list of persons read by the I/O layer
  mutationRates,  \* the mutation rate table
  matrix,         \* <<>> or <<[fn, dm]>>: the call of NewDistanceMatrix and its result
  years,          \* <<>> or <<[g, c, dm]>>: the call of Years and its result
  modal,          \* <<>> or <<[order1, order2, person]>>: the call of ModalHaplotype
  reduced,        \* <<>> or <<[n, out]>>: the call of ReduceToMarkerSet and what it returned
  compared,       \* <<>> or <<[hybrid, infinite]>>: the two metrics of persons[1], persons[2]
  focus,          \* <<>> or <<group>>: the marker whose values and rates are varied
  last,           \* <<>> or <<[op, k, i, j, old, before]>>: the last change and the metrics before it
  heap,           \* the allocated objects by address, where persons holds pointers
  call            \* <<>> or <<[op, before, ...]>>: the last call on the heap and what it returned

vars == <<persons, mutationRates, matrix, years, modal, reduced, compared, focus, last,
          heap, call>>

\* -------------------------------------------------------------- bounds
\* The longest list of persons.
MaxPersons == 3

\* The number of changes made to the two persons and the rate table that
\* are compared again after each change.
MaxEdits == 2

\* The longest list of persons that is anonymized or reduced.
MaxCrowd == 11

\* ----------------------------------------------------- matrix pipeline
\* The persons the I/O layer can deliver: no marker tested; a 12 marker
\* panel; the same with marker 5 two repeats away; the same with DYS393 and
\* DYS389i one repeat away.
MatrixSamples ==
  { NewPerson("none", ZeroMarkers),
    NewPerson("kitA", Panel(12, 13)),
    NewPerson("kitB", [Panel(12, 13) EXCEPT ![5] = 15]),
    NewPerson("kitC", [Panel(12, 13) EXCEPT ![0] = 14, ![DYS389i] = 12]) }

\* The rate tables: mutation counting, and a table that weighs marker 5
\* and leaves out everything past the 12 marker panel.
MatrixRates ==
  { DefaultMutationRates,
    [i \in Slots |-> IF i = 5 THEN 2 ELSE IF i < 12 THEN 1 ELSE 0] }

GenerationDistances == {FromInt(25), FromInt(32)}
CalibrationFactors == {FromInt(1), <<1, 2>>}

Lists(S, n) == UNION {[1 .. k -> S] : k \in 0 .. n}

Init ==
  /\ persons \in Lists(MatrixSamples, MaxPersons)
  /\ mutationRates \in MatrixRates
  /\ matrix = <<>>
  /\ years = <<>>
  /\ modal = <<>>
  /\ reduced = <<>>
  /\ compared = <<>>
  /\ focus = <<>>
  /\ last = <<>>
  /\ heap = <<>>
  /\ call = <<>>

\* main: dm := genetic.NewDistanceMatrix(persons, mutationRates, distance)
BuildMatrix(fn) ==
  /\ matrix = <<>>
  /\ matrix' = <<[fn |-> fn, dm |-> NewDistanceMatrix(persons, mutationRates, fn)]>>
  /\ UNCHANGED <<persons, mutationRates, years, modal, reduced, compared, focus, last, heap, call>>

\* main: dm.Years(*gendist, *cal)
ToYears(g, c) ==
  /\ matrix # <<>>
  /\ years = <<>>
  /\ years' = <<[g |-> g, c |-> c, dm |-> Years(matrix[1].dm, g, c)]>>
  /\ UNCHANGED <<persons, mutationRates, matrix, modal, reduced, compared, focus, last, heap, call>>

Next ==
  \/ \E fn \in DistanceFuncs : BuildMatrix(fn)
  \/ \E g \in GenerationDistances, c \in CalibrationFactors : ToYears(g, c)

Spec == Init /\ [][Next]_vars

\* ------------------------------------------------------ modal haplotype
\* The persons of the population: a 12 marker panel; the same with marker 5
\* two repeats higher; one with marker 0 not tested, an invalid negative
\* value at marker 1 and marker 5 one repeat lower. Each has a value in
\* the first extra slot of DYS464, the first person in all four.
ModalSamples ==
  { NewPerson("kitA", [i \in Slots |-> IF i < 12 \/ i >= DYS464extStart THEN 13 ELSE 0]),
    NewPerson("kitB", [Panel(12, 13) EXCEPT ![5] = 15, ![DYS464extStart] = 13]),
    NewPerson("kitD", [Panel(12, 13) EXCEPT ![0] = 0, ![1] = -1, ![5] = 12,
                                            ![DYS464extStart] = 13]) }

\* The marker values that can be keys of cMarkers.
KeysOf(ps) ==
  {v \in UNION {{ps[k].YstrMarkers[i] : i \in 0 .. 11} : k \in 1 .. Len(ps)} : v > 0}

\* Every order in which a range over a map with these keys can visit them.
Orders(keys) ==
  {o \in [1 .. Cardinality(keys) -> keys] : \A v \in keys : \E k \in DOMAIN o : o[k] = v}

InitModal ==
  /\ persons \in Lists(ModalSamples, MaxPersons)
  /\ mutationRates = DefaultMutationRates
  /\ matrix = <<>>
  /\ years = <<>>
  /\ modal = <<>>
  /\ reduced = <<>>
  /\ compared = <<>>
  /\ focus = <<>>
  /\ last = <<>>
  /\ heap = <<>>
  /\ call = <<>>

\* main: modal := genetic.ModalHaplotype(persons)
ComputeModal(order1, order2) ==
  /\ modal = <<>>
  /\ reduced = <<>>
  /\ compared = <<>>
  /\ focus = <<>>
  /\ last = <<>>
  /\ modal' = <<[order1 |-> order1, order2 |-> order2,
                 person |-> ModalHaplotype(persons, order1, order2)]>>
  /\ UNCHANGED <<persons, mutationRates, matrix, years, reduced, compared, focus, last, heap, call>>

NextModal ==
  \E order1, order2 \in Orders(KeysOf(persons)) : ComputeModal(order1, order2)

SpecModal == InitModal /\ [][NextModal]_vars

\* ----------------------------------------------------------- reduction
\* The persons to reduce: a 12 and a 37 marker panel; 37 marker panels with
\* DYS464 values missing at its first, its two middle and its last
\* position; one with an invalid negative value; and a person with a value
\* in every slot, the four extra DYS464 slots included.
ReduceSamples ==
  { NewPerson("kitA", Panel(12, 13)),
    NewPerson("kitK", Panel(37, 13)),
    NewPerson("kitE", [Panel(37, 13) EXCEPT ![DYS464start] = 0]),
    NewPerson("kitF", [Panel(37, 13) EXCEPT ![DYS464start + 1] = 0, ![DYS464end - 1] = 0]),
    NewPerson("kitI", [Panel(37, 13) EXCEPT ![DYS464end] = 0]),
    NewPerson("kitG", [Panel(37, 13) EXCEPT ![5] = -1]),
    NewPerson("kitH", Panel(MaxMarkers + NDYS464ext, 13)) }

\* Values of the -nmarkers flag.
NMarkersValues == {0, 12, 25, 37, MaxMarkers + NDYS464ext, MaxMarkers + NDYS464ext + 1}

InitReduce ==
  /\ persons \in Lists(ReduceSamples, MaxPersons)
  /\ mutationRates = DefaultMutationRates
  /\ matrix = <<>>
  /\ years = <<>>
  /\ modal = <<>>
  /\ reduced = <<>>
  /\ compared = <<>>
  /\ focus = <<>>
  /\ last = <<>>
  /\ heap = <<>>
  /\ call = <<>>

\* main: persons, err = genetic.ReduceToMarkerSet(persons, *nmarkers)
ReduceMarkers(n) ==
  /\ reduced = <<>>
  /\ compared = <<>>
  /\ focus = <<>>
  /\ last = <<>>
  /\ reduced' = <<[n |-> n, out |-> ReduceToMarkerSet(persons, n)]>>
  /\ UNCHANGED <<persons, mutationRates, matrix, years, modal, compared, focus, last, heap, call>>

NextReduce == \E n \in NMarkersValues : ReduceMarkers(n)

SpecReduce == InitReduce /\ [][NextReduce]_vars

\* --------------------------------------------------------------- metric
\* Two persons are compared, one marker value or one rate is changed, and
\* they are compared again.

\* One call of distance: [sum, nCompared, distance].
Outcome(ystr1, ystr2, rates, isInfiniteAlleles) ==
  LET t == distanceTotals(ystr1, ystr2, rates, isInfiniteAlleles)
  IN  [sum |-> t[1], nCompared |-> t[2],
       distance |-> average(t[1], t[2])]

\* DistanceHybrid and DistanceInfiniteAlleles of the two persons.
Compare(ps, rates) ==
  <<[hybrid |-> Outcome(ps[1].YstrMarkers, ps[2].YstrMarkers, rates, FALSE),
     infinite |-> Outcome(ps[1].YstrMarkers, ps[2].YstrMarkers, rates, TRUE)]>>

\* The markers that are varied, one per kind of statement of distance: an
\* ordinary marker, DYS389i with DYS389ii, DYS464 with its first extra slot,
\* a palindromic marker of the 111 marker range and one of palindromicRegions;
\* markers are the positions whose values change, rates those whose rates do.
MetricGroups ==
  { [name |-> "ordinary", markers |-> {5}, rates |-> {5}],
    [name |-> "DYS389", markers |-> {DYS389i, DYS389ii}, rates |-> {DYS389i, DYS389ii}],
    [name |-> "DYS464", markers |-> {DYS464start, DYS464extStart},
                        rates |-> {DYS464start, DYS464end}],
    [name |-> "YCAII", markers |-> {YCAIIstart, YCAIIend}, rates |-> {YCAIIstart, YCAIIend}],
    [name |-> "DYF399", markers |-> {DYF399start, DYF399end}, rates |-> {DYF399end}] }

MarkerValues == {0, 12, 13}
RateValues == {0, 1, 2}

\* Two persons with the same value for the 111 markers of FTDNA and for
\* DYF399 of the YFull range; the extra slots of DYS464 are empty.
MetricMarkers ==
  [i \in Slots |-> IF i < 111 \/ i \in DYF399start .. DYF399end THEN 13 ELSE 0]

MetricPersons ==
  << NewPerson("kitX", MetricMarkers), NewPerson("kitY", MetricMarkers) >>

\* Mutation counting, and a table that leaves out every marker.
MetricRates == {DefaultMutationRates, ZeroMarkers}

InitMetric ==
  /\ persons = MetricPersons
  /\ mutationRates \in MetricRates
  /\ matrix = <<>>
  /\ years = <<>>
  /\ modal = <<>>
  /\ reduced = <<>>
  /\ compared = Compare(persons, mutationRates)
  /\ focus \in {<<g>> : g \in MetricGroups}
  /\ last = <<>>
  /\ heap = <<>>
  /\ call = <<>>

Edits == IF last = <<>> THEN 0 ELSE last[1].edits

Edited(op, k, i, j, old) ==
  <<[op |-> op, k |-> k, i |-> i, j |-> j, old |-> old,
     before |-> compared[1], edits |-> Edits + 1]>>

\* The value of marker i of person k becomes v.
SetMarker(k, i, v) ==
  /\ Edits < MaxEdits
  /\ persons[k].YstrMarkers[i] # v
  /\ persons' = [persons EXCEPT ![k].YstrMarkers[i] = v]
  /\ compared' = Compare(persons', mutationRates)
  /\ last' = Edited("SetMarker", k, i, i, persons[k].YstrMarkers[i])
  /\ UNCHANGED <<mutationRates, matrix, years, modal, reduced, focus, heap, call>>

\* The rate of marker i becomes r.
SetRate(i, r) ==
  /\ Edits < MaxEdits
  /\ mutationRates[i] # r
  /\ mutationRates' = [mutationRates EXCEPT ![i] = r]
  /\ compared' = Compare(persons, mutationRates')
  /\ last' = Edited("SetRate", 0, i, i, mutationRates[i])
  /\ UNCHANGED <<persons, matrix, years, modal, reduced, focus, heap, call>>

\* The positions that hold the values of one palindromic marker: DYS464
\* with its extra slots, or the region of the layout that i lies in.
RegionOf(i) ==
  IF i \in DYS464start .. DYS464end \/ i \in DYS464extStart .. DYS464extEnd
  THEN (DYS464start .. DYS464end) \cup (DYS464extStart .. DYS464extEnd)
  ELSE UNION {r[1] .. r[2] : r \in
         {x \in { <<YCAIIstart, YCAIIend>>, <<CDYstart, CDYend>>,
                  <<DYF395S1start, DYF395S1end>>, <<DYS413start, DYS413end>> }
                \cup {palindromicRegions[n] : n \in DOMAIN palindromicRegions} :
            x[1] <= i /\ i <= x[2]}}

\* Person k's values at two positions of one palindromic marker change places.
SwapMarkers(k, i, j) ==
  /\ Edits < MaxEdits
  /\ i < j
  /\ j \in RegionOf(i)
  /\ persons[k].YstrMarkers[i] # persons[k].YstrMarkers[j]
  /\ persons' = [persons EXCEPT ![k].YstrMarkers[i] = persons[k].YstrMarkers[j],
                                ![k].YstrMarkers[j] = persons[k].YstrMarkers[i]]
  /\ compared' = Compare(persons', mutationRates)
  /\ last' = Edited("SwapMarkers", k, i, j, persons[k].YstrMarkers[i])
  /\ UNCHANGED <<mutationRates, matrix, years, modal, reduced, focus, heap, call>>

NextMetric ==
  \/ \E k \in 1 .. 2, i \in focus[1].markers, v \in MarkerValues : SetMarker(k, i, v)
  \/ \E i \in focus[1].rates, r \in RateValues : SetRate(i, r)
  \/ \E k \in 1 .. 2, i, j \in focus[1].markers : SwapMarkers(k, i, j)

SpecMetric == InitMetric /\ [][NextMetric]_vars

\* ------------------------------------------------------------- claims
IsSquare(dm) ==
  /\ DOMAIN dm.Values = 1 .. dm.Size
  /\ \A i \in 1 .. dm.Size : DOMAIN dm.Values[i] = 1 .. dm.Size

\* C1: whatever distance function is passed, the matrix NewDistanceMatrix
\* returns has Size = len(persons), Values is Size x Size, and
\* Values[i][j] = Values[j][i] for all i, j.
MatrixIsSymmetric ==
  matrix # <<>> =>
    LET dm == matrix[1].dm IN
    /\ dm.Size = Len(persons)
    /\ IsSquare(dm)
    /\ \A i, j \in 1 .. dm.Size : dm.Values[i][j] = dm.Values[j][i]

\* A matrix built with the function that is not symmetric, for two persons
\* it tells apart.
MatrixIsSymmetricWitness ==
  /\ matrix # <<>>
  /\ matrix[1].fn = "directed"
  /\ \E i, j \in 1 .. Len(persons) :
       /\ i < j
       /\ directed(persons[i].YstrMarkers, persons[j].YstrMarkers, mutationRates)
            # directed(persons[j].YstrMarkers, persons[i].YstrMarkers, mutationRates)
       /\ matrix[1].dm.Values[j][i]
            = directed(persons[i].YstrMarkers, persons[j].YstrMarkers, mutationRates)

Metrics == {"DistanceHybrid", "DistanceInfiniteAlleles"}

\* C2: every diagonal cell of a matrix built with DistanceHybrid or
\* DistanceInfiniteAlleles is 0, also for a person with no marker that is
\* comparable under the rate table.
DiagonalIsZero ==
  (matrix # <<>> /\ matrix[1].fn \in Metrics) =>
    \A i \in 1 .. matrix[1].dm.Size : matrix[1].dm.Values[i][i] = Zero

\* C3: a comparison with no comparable marker is reported as an error or a
\* sentinel; NewDistanceMatrix never stores the NaN of a division by a zero
\* count in a cell.
NoCellIsNaN ==
  (matrix # <<>> /\ matrix[1].fn \in Metrics) =>
    \A i, j \in 1 .. matrix[1].dm.Size : ~IsNaN(matrix[1].dm.Values[i][j])

\* x < y for finite x, y
FLess(x, y) == x[1] * y[2] < y[1] * x[2]
FAbs(x) == <<IAbs(x[1]), x[2]>>
FNeg(x) == <<-x[1], x[2]>>

\* r is x with its fraction cut off: an integer between 0 and x, less than
\* 1 away from x.
IsTruncationOf(r, x) ==
  IF ~IsFinite(x) THEN r = x
  ELSE /\ IsFinite(r) /\ r[2] = 1
       /\ ~FLess(FAbs(x), FAbs(r))
       /\ FLess(FAbs(x), FAdd(FAbs(r), FromInt(1)))
       /\ (r = Zero \/ (r[1] > 0) = (x[1] > 0))

\* C8: Years(g, c) returns a matrix of the same Size whose every cell is
\* g*c*Values[i][j] truncated toward zero, not rounded.
YearsTruncates ==
  years # <<>> =>
    LET dm == matrix[1].dm
        y == years[1]
    IN  /\ y.dm.Size = dm.Size
        /\ IsSquare(y.dm)
        /\ \A i, j \in 1 .. dm.Size :
             IsTruncationOf(y.dm.Values[i][j], FMul(FMul(y.g, y.c), dm.Values[i][j]))

\* Years has cut off a fraction of one half or more, and of a negative product.
YearsTruncatesWitness ==
  /\ years # <<>>
  /\ \E i, j \in 1 .. matrix[1].dm.Size :
       LET x == FMul(FMul(years[1].g, years[1].c), matrix[1].dm.Values[i][j])
       IN  /\ IsFinite(x) /\ x[1] > 0
           /\ ~FLess(FAdd(x, FNeg(years[1].dm.Values[i][j])), <<1, 2>>)
  /\ \E i, j \in 1 .. matrix[1].dm.Size :
       LET x == FMul(FMul(years[1].g, years[1].c), matrix[1].dm.Values[i][j])
       IN  IsFinite(x) /\ x[1] < 0 /\ x[2] # 1
\* The values > 0 found at a marker and how often each is found.
ValuesAt(ps, marker) ==
  {ps[k].YstrMarkers[marker] : k \in {n \in 1 .. Len(ps) : ps[n].YstrMarkers[marker] > 0}}
TimesAt(ps, marker, v) == Cardinality({k \in 1 .. Len(ps) : ps[k].YstrMarkers[marker] = v})

\* C7: at every marker position below MaxMarkers the modal value is the value
\* > 0 with the highest occurrence count, the smallest one of several with
\* that count, and 0 when no person has a value > 0, in whatever order the
\* map of counts is ranged over.
ModalIsLowestMostFrequent ==
  modal # <<>> =>
    \A marker \in 0 .. (MaxMarkers - 1) :
      LET m == modal[1].person.YstrMarkers[marker]
          found == ValuesAt(persons, marker)
      IN  IF found = {} THEN m = 0
          ELSE /\ m \in found
               /\ \A v \in found :
                    /\ TimesAt(persons, marker, v) <= TimesAt(persons, marker, m)
                    /\ TimesAt(persons, marker, v) = TimesAt(persons, marker, m) => m <= v

\* Two values share the highest count at marker 5 and the first loop met
\* the higher one first.
ModalIsLowestMostFrequentWitness ==
  /\ modal # <<>>
  /\ \E v, w \in ValuesAt(persons, 5) :
       /\ v < w
       /\ TimesAt(persons, 5, v) = TimesAt(persons, 5, w)
       /\ \A x \in ValuesAt(persons, 5) : TimesAt(persons, 5, x) <= TimesAt(persons, 5, v)
       /\ highestLoop(persons, 5, modal[1].order1, 1, <<0, 0>>)[2] = w
       /\ modal[1].person.YstrMarkers[5] = v

\* A person is complete for n as markerSet has it: no value below n is 0,
\* the positions strictly between DYS464start and DYS464end aside.
CompleteFor(p, n) ==
  \A i \in 0 .. (n - 1) :
    InRange(i) => (p.YstrMarkers[i] # 0 \/ (DYS464start < i /\ i < DYS464end))

IDs(ps) == [k \in 1 .. Len(ps) |-> ps[k].ID]

\* What C9 says of a call that has returned.
ErrorIffFewerThanTwo(n, out) ==
  LET isComplete(p) == CompleteFor(p, n)
      complete == SelectSeq(persons, isComplete)
  IN  /\ out.err <=> Len(complete) < 2
      /\ Len(persons) = 1 => out.err
      /\ ~out.err => IDs(out.result) = IDs(complete)

\* C9: ReduceToMarkerSet(persons, n) returns an error if and only if fewer
\* than 2 persons are complete for n, so a 1-person input fails for every n;
\* on success the result holds exactly the complete persons in input order.
ReduceFailsIffFewerThanTwo ==
  reduced # <<>> =>
    /\ ~reduced[1].out.panic
    /\ ErrorIffFewerThanTwo(reduced[1].n, reduced[1].out)

\* The same for the values of n up to the length of the marker array, which
\* is where the function returns.
ReduceFailsIffFewerThanTwoInRange ==
  (reduced # <<>> /\ reduced[1].n <= MaxMarkers + NDYS464ext) =>
    /\ ~reduced[1].out.panic
    /\ ErrorIffFewerThanTwo(reduced[1].n, reduced[1].out)

\* A person is complete for n as the specification has it: every position
\* below n holds a value > 0, the four positions of DYS464 aside.
CompleteAsSpecified(p, n) ==
  \A i \in 0 .. (n - 1) :
    InRange(i) => (p.YstrMarkers[i] > 0 \/ (DYS464start <= i /\ i <= DYS464end))

\* C10: a person is kept only if every position below n holds a value > 0,
\* except that a missing value at any of the positions DYS464start ..
\* DYS464end never disqualifies; a zero or negative value at any other
\* position below n always does.
KeptIffCompleteAsSpecified ==
  (reduced # <<>> /\ ~reduced[1].out.panic) =>
    LET isComplete(p) == CompleteAsSpecified(p, reduced[1].n)
    IN  IDs(reduced[1].out.result) = IDs(SelectSeq(persons, isComplete))

\* ------------------------------------------------------ claims, metric
Last == last[1]

\* Both metrics give what they gave before the last change.
SameResult ==
  /\ compared[1].hybrid.distance = Last.before.hybrid.distance
  /\ compared[1].infinite.distance = Last.before.infinite.distance

\* The position whose rate distance reads for the value at position i: the
\* last position of a palindromic marker (DYS464end for DYS464 and its extra
\* slots), the position itself for every other marker.
ConsultedRate(i) ==
  IF RegionOf(i) = {} THEN i
  ELSE IF DYS464end \in RegionOf(i) THEN DYS464end
  ELSE CHOOSE e \in RegionOf(i) : \A x \in RegionOf(i) : x <= e

\* No statement of distance reads the value at position i.
Excluded(i) ==
  IF i = DYS389i THEN mutationRates[DYS389i] = 0 /\ mutationRates[DYS389ii] = 0
  ELSE mutationRates[ConsultedRate(i)] = 0

\* C4 as stated: if the rate stored at position i is 0, changing the value
\* of a person at position i never changes the distance.
RateZeroExcludesPosition ==
  (last # <<>> /\ Last.op = "SetMarker" /\ mutationRates[Last.i] = 0) => SameResult

\* C4: if the rate that distance reads for position i is 0 (the rate at i for
\* an ordinary marker and for DYS389ii, the rates at DYS389i and DYS389ii for
\* DYS389i, the rate at the last position for a palindromic marker and at
\* DYS464end for DYS464 and its extra slots), changing the value of a person
\* at position i never changes the distance.
RateZeroExcludesMarker ==
  (last # <<>> /\ Last.op = "SetMarker" /\ Excluded(Last.i)) => SameResult

\* A value in an extra slot of DYS464 has changed while the rate at DYS464end
\* is 0, and the other markers still give a distance.
RateZeroExcludesMarkerWitness ==
  /\ last # <<>>
  /\ Last.op = "SetMarker"
  /\ Last.i = DYS464extStart
  /\ persons[Last.k].YstrMarkers[Last.i] > 0
  /\ mutationRates[DYS464end] = 0
  /\ mutationRates[DYS464start] # 0
  /\ IsFinite(compared[1].hybrid.distance)
  /\ SameResult

\* C5: when the values of one person change places inside a palindromic
\* marker, DistanceHybrid and DistanceInfiniteAlleles to the other person
\* stay what they were.
PermutationKeepsDistance ==
  (last # <<>> /\ Last.op = "SwapMarkers") => SameResult

\* A value of DYS464 has moved into an extra slot while the two persons
\* differ in DYS464.
PermutationKeepsDistanceWitness ==
  /\ last # <<>>
  /\ Last.op = "SwapMarkers"
  /\ Last.i = DYS464start
  /\ Last.j = DYS464extStart
  /\ IsFinite(compared[1].hybrid.distance)
  /\ compared[1].hybrid.distance # Zero
  /\ compared[1].infinite.distance # Zero
  /\ SameResult

\* Position i holds an ordinary marker: it is compared by singleDistance.
IsOrdinary(i) == i < MaxMarkers /\ i # DYS389ii /\ RegionOf(i) = {}

\* C6: when an ordinary marker that was compared is set to 0 for one person,
\* DistanceHybrid goes from S / n to (S - |a[i] - b[i]| / rate[i]) / (n - 1)
\* and is not NaN.
MissingMarkerRemovesOneTerm ==
  (/\ last # <<>>
   /\ Last.op = "SetMarker"
   /\ IsOrdinary(Last.i)
   /\ persons[Last.k].YstrMarkers[Last.i] = 0
   /\ Last.old > 0
   /\ persons[3 - Last.k].YstrMarkers[Last.i] > 0
   /\ mutationRates[Last.i] > 0
   /\ Last.before.hybrid.nCompared > 0)
  =>
    LET term == Norm(IAbs(Last.old - persons[3 - Last.k].YstrMarkers[Last.i]),
                     mutationRates[Last.i])
    IN  /\ compared[1].hybrid.distance =
             FDivInt(FAdd(Last.before.hybrid.sum, FNeg(term)),
                     Last.before.hybrid.nCompared - 1)
        /\ ~IsNaN(compared[1].hybrid.distance)

\* The same for a marker other than DYS389i that leaves another marker to
\* compare.
MissingMarkerRemovesOneTermOfMany ==
  (/\ last # <<>>
   /\ Last.op = "SetMarker"
   /\ IsOrdinary(Last.i)
   /\ Last.i # DYS389i
   /\ persons[Last.k].YstrMarkers[Last.i] = 0
   /\ Last.old > 0
   /\ persons[3 - Last.k].YstrMarkers[Last.i] > 0
   /\ mutationRates[Last.i] > 0
   /\ Last.before.hybrid.nCompared > 1)
  =>
    LET term == Norm(IAbs(Last.old - persons[3 - Last.k].YstrMarkers[Last.i]),
                     mutationRates[Last.i])
    IN  /\ compared[1].hybrid.distance =
             FDivInt(FAdd(Last.before.hybrid.sum, FNeg(term)),
                     Last.before.hybrid.nCompared - 1)
        /\ ~IsNaN(compared[1].hybrid.distance)

\* -------------------------------------------------- claims, reduction 2
\* The person of the input list with the given ID.
Original(id) == persons[CHOOSE k \in 1 .. Len(persons) : persons[k].ID = id]

\* C11: every person ReduceToMarkerSet(persons, n) returns has 0 at every
\* position >= n, the extra slots of DYS464 included, and the values of the
\* input person at every position < n.
ReducedTailIsZero ==
  (reduced # <<>> /\ ~reduced[1].out.panic) =>
    \A k \in 1 .. Len(reduced[1].out.result) :
      LET p == reduced[1].out.result[k]
      IN  \A i \in Slots :
            IF i >= reduced[1].n THEN p.YstrMarkers[i] = 0
            ELSE p.YstrMarkers[i] = Original(p.ID).YstrMarkers[i]

\* The same for the positions of the canonical range, which is what the
\* loop of markerSet covers.
ReducedTailIsZeroBelowMaxMarkers ==
  (reduced # <<>> /\ ~reduced[1].out.panic) =>
    \A k \in 1 .. Len(reduced[1].out.result) :
      LET p == reduced[1].out.result[k]
      IN  \A i \in Slots :
            IF i >= reduced[1].n /\ i < MaxMarkers THEN p.YstrMarkers[i] = 0
            ELSE p.YstrMarkers[i] = Original(p.ID).YstrMarkers[i]

\* ------------------------------------------------------ invalid values
\* Two persons who differ at every marker of the 37 marker panel and at
\* DYF399, one of them given invalid negative values.
OtherMarkers ==
  [i \in Slots |-> IF i < 37 \/ i \in DYF399start .. DYF399end THEN 14 ELSE MetricMarkers[i]]

InvalidValues == {-1, 0, 13}

InitInvalid ==
  /\ persons = << NewPerson("kitX", MetricMarkers), NewPerson("kitZ", OtherMarkers) >>
  /\ mutationRates = DefaultMutationRates
  /\ matrix = <<>>
  /\ years = <<>>
  /\ modal = <<>>
  /\ reduced = <<>>
  /\ compared = Compare(persons, mutationRates)
  /\ focus \in {<<g>> : g \in MetricGroups}
  /\ last = <<>>
  /\ heap = <<>>
  /\ call = <<>>

NextInvalid ==
  \E k \in 1 .. 2, i \in focus[1].markers, v \in InvalidValues : SetMarker(k, i, v)

SpecInvalid == InitInvalid /\ [][NextInvalid]_vars

\* The varied positions at which the vector holds a negative value.
Negatives(ystr) == {i \in focus[1].markers : ystr[i] < 0}

\* The vector without its unusable markers: a negative value is replaced by
\* 0, and so is every value of a palindromic marker that holds one.
Usable(ystr) ==
  LET unusable == UNION {{m} \cup RegionOf(m) : m \in Negatives(ystr)}
  IN  [i \in Slots |-> IF i \in unusable THEN 0 ELSE ystr[i]]

\* C12: a marker with a negative value in either person is left out of
\* DistanceHybrid and DistanceInfiniteAlleles: sum, compared count and
\* distance are those of the persons without that marker (an ordinary
\* marker, DYS389ii with DYS389i, or the whole palindromic marker).
NegativeIsUnusable ==
  (\E k \in 1 .. 2 : Negatives(persons[k].YstrMarkers) # {}) =>
    compared = Compare([k \in 1 .. 2 |->
                          [persons[k] EXCEPT !.YstrMarkers = Usable(persons[k].YstrMarkers)]],
                       mutationRates)

\* An extra slot of DYS464 holds a negative value, the other person still
\* has DYS464, and the other markers give a distance.
NegativeIsUnusableWitness ==
  /\ last # <<>>
  /\ focus[1].name = "DYS464"
  /\ persons[1].YstrMarkers[DYS464extStart] < 0
  /\ persons[1].YstrMarkers[DYS464start] > 0
  /\ persons[2].YstrMarkers[DYS464start] > 0
  /\ compared[1].hybrid.nCompared =
       111 + (DYF399end - DYF399start + 1) - (DYS464end - DYS464start + 1)
  /\ IsFinite(compared[1].hybrid.distance)
  /\ compared[1].hybrid.distance # Zero

\* ------------------------------------------------------------ scenarios
\* Two persons are compared once with both metrics.

\* The persons of the matrix pipeline and, next to them: a 12 marker panel
\* one repeat away at marker 3; one repeat away at DYS389i; a person tested
\* for marker 3 only; a 37 marker panel; a 37 marker panel with five values
\* of DYS464, one value of YCAII and an invalid value at marker 5; a person
\* with a value in every slot and three different values of DYF399; a 37
\* marker panel two repeats away at marker 7 and with another DYS464.
ScenarioSamples ==
  MatrixSamples \cup
  { NewPerson("kitL", [Panel(12, 13) EXCEPT ![3] = 14]),
    NewPerson("kitN", [Panel(12, 13) EXCEPT ![DYS389i] = 12]),
    NewPerson("kitM", [ZeroMarkers EXCEPT ![3] = 13]),
    NewPerson("kitK", Panel(37, 13)),
    NewPerson("kitG", [Panel(37, 13) EXCEPT ![7] = 15, ![DYS464start] = 14]),
    NewPerson("kitJ", [Panel(37, 13) EXCEPT ![5] = -1, ![DYS464start] = 15,
                                            ![DYS464extStart] = 15, ![YCAIIend] = 0]),
    NewPerson("kitH", [Panel(MaxMarkers + NDYS464ext, 13) EXCEPT
                         ![DYS464end] = 0, ![DYS464extEnd] = 0, ![DYS464extEnd - 1] = 0,
                         ![DYF399start] = 12, ![DYF399end] = 14, ![CDYstart] = -1]) }

\* The rate tables of the matrix pipeline, one with a negative rate at
\* marker 3 and at YCAII and other rates than 1 at DYS389ii and DYS464, and
\* one with a negative rate at DYS389ii, at DYS464 and at YCAII.
ScenarioRates ==
  MatrixRates \cup
  { [i \in Slots |-> IF i \in {3, YCAIIend} THEN -1
                     ELSE IF i \in {DYS389ii, DYS464end} THEN 2
                     ELSE IF i = DYS464start THEN 0 ELSE 1],
    [i \in Slots |-> IF i \in {DYS389ii, DYS464end, YCAIIend} THEN -1 ELSE 1] }

InitScenario ==
  /\ persons \in [1 .. 2 -> ScenarioSamples]
  /\ mutationRates \in ScenarioRates
  /\ matrix = <<>>
  /\ years = <<>>
  /\ modal = <<>>
  /\ reduced = <<>>
  /\ compared = <<>>
  /\ focus = <<>>
  /\ last = <<>>
  /\ heap = <<>>
  /\ call = <<>>

\* DistanceHybrid and DistanceInfiniteAlleles of persons[1] and persons[2].
Measure ==
  /\ compared = <<>>
  /\ compared' = Compare(persons, mutationRates)
  /\ UNCHANGED <<persons, mutationRates, matrix, years, modal, reduced, focus, last, heap, call>>

NextScenario == Measure

SpecScenario == InitScenario /\ [][NextScenario]_vars

\* ------------------------------------------------------ claims, scenarios
Ystr1 == persons[1].YstrMarkers
Ystr2 == persons[2].YstrMarkers

\* The two persons both have marker i, with different values, and every
\* other marker is equal between them or missing in one of them.
DiffersOnlyAt(i) ==
  /\ Ystr1[i] > 0
  /\ Ystr2[i] > 0
  /\ Ystr1[i] # Ystr2[i]
  /\ \A j \in Slots \ {i} : Ystr1[j] = Ystr2[j] \/ Ystr1[j] = 0 \/ Ystr2[j] = 0

\* The two persons share a measured marker and are identical everywhere
\* measured.
IdenticalWhereMeasured ==
  /\ \E j \in Slots : Ystr1[j] > 0 /\ Ystr2[j] > 0
  /\ \A j \in Slots : Ystr1[j] = Ystr2[j] \/ Ystr1[j] = 0 \/ Ystr2[j] = 0

Digits == <<"0", "1", "2", "3", "4", "5", "6", "7", "8", "9">>

RECURSIVE Itoa(_)
Itoa(n) == IF n < 10 THEN Digits[n + 1] ELSE Itoa(n \div 10) \o Digits[(n % 10) + 1]

\* A label padded with zeros.
RECURSIVE zeros(_)
zeros(n) == IF n <= 0 THEN "" ELSE "0" \o zeros(n - 1)

\* underscores := make([]byte, n), every byte set to '_'
RECURSIVE underscores(_)
underscores(n) == IF n <= 0 THEN "" ELSE "_" \o underscores(n - 1)

\* An anonymize that also leaves out the marker values.
anonymizeMarkers(p) ==
  [ID |-> "", Name |-> "", Label |-> "__________", Ancestor |-> "", Origin |-> "",
   YstrMarkers |-> ZeroMarkers]

\* Person.anonymize
anonymize(p) ==
  [ID |-> "", Name |-> "", Label |-> "__________", Ancestor |-> "", Origin |-> "",
   YstrMarkers |-> p.YstrMarkers]

\* The label Anonymize gives to the person at index i (from 0).
anonymousLabel(i) == underscores(10 - Len(Itoa(i + 1))) \o Itoa(i + 1)

\* Anonymize; the list is numbered from 1 here, from 0 in Go.
Anonymize(ps) ==
  [k \in 1 .. Len(ps) |-> [anonymize(ps[k]) EXCEPT !.Label = anonymousLabel(k - 1)]]

\* The quotient of Go's integer division, which truncates toward zero.
Quotient(a, b) ==
  IF (a >= 0) = (b > 0) THEN IAbs(a) \div IAbs(b) ELSE -(IAbs(a) \div IAbs(b))

\* What a slot of a slice of pointers holds before it is assigned.
Nil == 0

\* Reduce: [result, err, panic]; err stands for the error "reduction too
\* large". len(persons)/factor panics for factor 0, and make panics for a
\* negative length; with an error the result holds nil pointers.
Reduce(ps, factor) ==
  IF factor = 0 \/ Quotient(Len(ps), factor) < 0
  THEN [result |-> <<>>, err |-> FALSE, panic |-> TRUE]
  ELSE LET n == Quotient(Len(ps), factor)
       IN  IF n < 2 THEN [result |-> [i \in 1 .. n |-> Nil], err |-> TRUE, panic |-> FALSE]
           ELSE [result |-> [i \in 1 .. n |-> ps[(i - 1) * factor + 1]],
                 err |-> FALSE, panic |-> FALSE]

\* ----------------------------------------------------------- statistics
\* A NewStatistics that tallies every value but 0.
NewStatisticsOfAllValues(ps) ==
  IF Len(ps) = 0
  THEN [NSamples |-> 0,
        Markers |-> [i \in Slots |-> [FrequencyAmongSamples |-> Zero,
                                      ValuesOccurrences |-> <<>>]]]
  ELSE [NSamples |-> Len(ps),
        Markers |-> [i \in Slots |->
          LET with == {j \in 1 .. Len(ps) : ps[j].YstrMarkers[i] # 0}
              values == {ps[j].YstrMarkers[i] : j \in with}
          IN  [FrequencyAmongSamples |-> Norm(Cardinality(with), Len(ps)),
               ValuesOccurrences |->
                 IF with = {} THEN <<>>
                 ELSE [v \in values |->
                         Cardinality({j \in with : ps[j].YstrMarkers[i] = v})]]]]

\* NewStatistics: for every slot the share of persons with a value > 0 and
\* the map from the values > 0 to their numbers of occurrences (<<>> for a
\* nil map).
NewStatistics(ps) ==
  IF Len(ps) = 0
  THEN [NSamples |-> 0,
        Markers |-> [i \in Slots |-> [FrequencyAmongSamples |-> Zero,
                                      ValuesOccurrences |-> <<>>]]]
  ELSE [NSamples |-> Len(ps),
        Markers |-> [i \in Slots |->
          LET with == {j \in 1 .. Len(ps) : ps[j].YstrMarkers[i] > 0}
              values == {ps[j].YstrMarkers[i] : j \in with}
          IN  [FrequencyAmongSamples |-> Norm(Cardinality(with), Len(ps)),
               ValuesOccurrences |->
                 IF with = {} THEN <<>>
                 ELSE [v \in values |->
                         Cardinality({j \in with : ps[j].YstrMarkers[i] = v})]]]]

\* ----------------------------------------------------------------- heap
\* The calls on pointers. heap[a] is the object at address a: a Person, or
\* the backing array of a slice; new and make append an object. A Person
\* holds its YstrMarkers array by value, so copying a Person copies it.
Objects(h, ptrs) == [k \in 1 .. Len(ptrs) |-> h[ptrs[k]]]

\* A markerSet that works on the person it is given: person = p.
markerSetInPlace(h, p, nMarkers) ==
  LET out == markerSet(h[p], nMarkers)
  IN  [heap |-> [h EXCEPT ![p] = out.person], person |-> p,
       isComplete |-> out.isComplete, panic |-> out.panic]

\* Person.markerSet: person = new(Person); *person = *p; the loops then
\* work on *person.
markerSetAt(h, p, nMarkers) ==
  LET out == markerSet(h[p], nMarkers)
  IN  [heap |-> Append(h, out.person), person |-> Len(h) + 1,
       isComplete |-> out.isComplete, panic |-> out.panic]

\* ReduceToMarkerSet from the k-th person on.
RECURSIVE ReduceToMarkerSetAt(_, _, _, _, _)
ReduceToMarkerSetAt(h, ptrs, nMarkers, k, result) ==
  IF k > Len(ptrs)
  THEN [heap |-> h, result |-> result, err |-> Len(result) < 2, panic |-> FALSE]
  ELSE LET next == markerSetAt(h, ptrs[k], nMarkers)
       IN  IF next.panic
           THEN [heap |-> next.heap, result |-> result, err |-> FALSE, panic |-> TRUE]
           ELSE ReduceToMarkerSetAt(next.heap, ptrs, nMarkers, k + 1,
                  IF next.isComplete THEN Append(result, next.person) ELSE result)

\* Anonymize from the k-th person on: result[i] = p.anonymize() is a new
\* Person, whose Label is then assigned.
RECURSIVE AnonymizeAt(_, _, _, _)
AnonymizeAt(h, ptrs, k, result) ==
  IF k > Len(ptrs) THEN [heap |-> h, result |-> result]
  ELSE LET q == Len(h) + 1
           h1 == Append(h, anonymize(h[ptrs[k]]))
           h2 == [h1 EXCEPT ![q].Label = anonymousLabel(k - 1)]
       IN  AnonymizeAt(h2, ptrs, k + 1, Append(result, q))

\* A matrix in the heap: the array of rows at address base + 1, the rows
\* after it; the DistanceMatrix holds the address of the array of rows.
Allocated(h, values) ==
  LET n == Len(values)
      base == Len(h)
  IN  [heap |-> h \o << [i \in 1 .. n |-> base + 1 + i] >> \o values,
       dm |-> [Size |-> n, Values |-> base + 1]]

\* The matrix at dm with its cells read from the heap.
Loaded(h, dm) ==
  [Size |-> dm.Size, Values |-> [i \in 1 .. dm.Size |-> h[h[dm.Values][i]]]]

NewDistanceMatrixAt(h, ptrs, rates, fn) ==
  Allocated(h, NewDistanceMatrix(Objects(h, ptrs), rates, fn).Values)

\* DistanceMatrix.Years: result.Values and its rows are made anew.
YearsAt(h, dm, generationDistance, calibrationFactor) ==
  Allocated(h, Years(Loaded(h, dm), generationDistance, calibrationFactor).Values)

\* The persons of the heap: panels of 12 and 37 markers and a person with
\* a value in every slot, all with personal data.
FrameSamples ==
  { [NewPerson("kitA", Panel(12, 13)) EXCEPT !.Ancestor = "Adam", !.Origin = "Aachen"],
    [NewPerson("kitK", Panel(37, 14)) EXCEPT !.Ancestor = "Konrad", !.Origin = "Kiel"],
    [NewPerson("kitH", Panel(MaxMarkers + NDYS464ext, 13))
       EXCEPT !.Ancestor = "Hugo", !.Origin = "Hamm"] }

\* Values of the -reduce flag and of the factor of a direct call.
Factors == {-1, 0, 1, 2, 3}

InitFrame ==
  /\ heap \in Lists(FrameSamples, MaxPersons)
  /\ persons = [k \in 1 .. Len(heap) |-> k]
  /\ mutationRates = DefaultMutationRates
  /\ matrix = <<>>
  /\ years = <<>>
  /\ modal = <<>>
  /\ reduced = <<>>
  /\ compared = <<>>
  /\ focus = <<>>
  /\ last = <<>>
  /\ call = <<>>

\* What every call records: the heap, the list and the rate table it was
\* given.
Called(op, result) ==
  <<[op |-> op, before |-> heap, persons |-> persons, rates |-> mutationRates,
     result |-> result]>>

Untouched == <<persons, mutationRates, matrix, years, modal, reduced, compared, focus, last>>

CallReduceToMarkerSet(nMarkers) ==
  /\ call = <<>>
  /\ LET out == ReduceToMarkerSetAt(heap, persons, nMarkers, 1, <<>>)
     IN  /\ heap' = out.heap
         /\ call' = Called("ReduceToMarkerSet",
                           [result |-> out.result, err |-> out.err, panic |-> out.panic])
  /\ UNCHANGED Untouched

CallReduce(factor) ==
  /\ call = <<>>
  /\ call' = Called("Reduce", Reduce(persons, factor))
  /\ UNCHANGED <<heap, persons, mutationRates, matrix, years, modal, reduced, compared,
                 focus, last>>

CallAnonymize ==
  /\ call = <<>>
  /\ LET out == AnonymizeAt(heap, persons, 1, <<>>)
     IN  /\ heap' = out.heap
         /\ call' = Called("Anonymize", out.result)
  /\ UNCHANGED Untouched

CallNewDistanceMatrix(fn) ==
  /\ call = <<>>
  /\ LET out == NewDistanceMatrixAt(heap, persons, mutationRates, fn)
     IN  /\ heap' = out.heap
         /\ call' = Called("NewDistanceMatrix", out.dm)
  /\ UNCHANGED Untouched

CallYears(generationDistance, calibrationFactor) ==
  /\ call # <<>>
  /\ call[1].op = "NewDistanceMatrix"
  /\ LET out == YearsAt(heap, call[1].result, generationDistance, calibrationFactor)
     IN  /\ heap' = out.heap
         /\ call' = Called("Years", [receiver |-> call[1].result, dm |-> out.dm])
  /\ UNCHANGED Untouched

\* The arrays are passed to a DistanceFunc by value.
CallDistance(fn) ==
  /\ call = <<>>
  /\ Len(persons) >= 2
  /\ call' = Called(fn, Apply(fn, heap[persons[1]].YstrMarkers,
                              heap[persons[2]].YstrMarkers, mutationRates))
  /\ UNCHANGED <<heap, persons, mutationRates, matrix, years, modal, reduced, compared,
                 focus, last>>

\* return &modal: the modal haplotype is a new Person.
CallModalHaplotype(order1, order2) ==
  /\ call = <<>>
  /\ heap' = Append(heap, ModalHaplotype(Objects(heap, persons), order1, order2))
  /\ call' = Called("ModalHaplotype", Len(heap) + 1)
  /\ UNCHANGED Untouched

\* return &result: the statistics are a new object.
CallNewStatistics ==
  /\ call = <<>>
  /\ heap' = Append(heap, NewStatistics(Objects(heap, persons)))
  /\ call' = Called("NewStatistics", Len(heap) + 1)
  /\ UNCHANGED Untouched

NextFrame ==
  \/ \E nMarkers \in NMarkersValues : CallReduceToMarkerSet(nMarkers)
  \/ \E factor \in Factors : CallReduce(factor)
  \/ CallAnonymize
  \/ \E fn \in DistanceFuncs : CallNewDistanceMatrix(fn)
  \/ \E g \in GenerationDistances, c \in CalibrationFactors : CallYears(g, c)
  \/ \E fn \in {"DistanceHybrid", "DistanceInfiniteAlleles"} : CallDistance(fn)
  \/ \E order1, order2 \in Orders(KeysOf(Objects(heap, persons))) :
       CallModalHaplotype(order1, order2)
  \/ CallNewStatistics

SpecFrame == InitFrame /\ [][NextFrame]_vars

\* --------------------------------------------------------- claims, heap
\* The rows of the matrix at dm.
RowsOf(h, dm) == {h[dm.Values][i] : i \in 1 .. dm.Size}

\* C14: after a call every object that existed before it (every input
\* Person with all its fields and marker values, every row of a receiver
\* matrix) is what it was, and so are the list of persons and the rate
\* table; the matrix Years returns shares no row with its receiver.
InputsUnchanged ==
  call # <<>> =>
    /\ Len(heap) >= Len(call[1].before)
    /\ \A a \in 1 .. Len(call[1].before) : heap[a] = call[1].before[a]
    /\ persons = call[1].persons
    /\ mutationRates = call[1].rates
    /\ call[1].op = "Years" =>
         /\ call[1].result.dm.Values # call[1].result.receiver.Values
         /\ RowsOf(heap, call[1].result.dm) \cap RowsOf(heap, call[1].result.receiver) = {}

\* ReduceToMarkerSet has returned a person whose markers it has cleared
\* from position 12 on, and the person it was given still has them.
InputsUnchangedWitness ==
  /\ call # <<>>
  /\ call[1].op = "ReduceToMarkerSet"
  /\ ~call[1].result.panic
  /\ \E k \in 1 .. Len(call[1].result.result) :
       LET q == call[1].result.result[k]
       IN  /\ q > Len(call[1].before)
           /\ heap[q].YstrMarkers[12] = 0
           /\ \E p \in 1 .. Len(persons) :
                heap[p].ID = heap[q].ID /\ heap[p].YstrMarkers[12] > 0

\* --------------------------------------------------------------- people
\* A list of persons is anonymized or reduced by a factor.

\* The k-th person of a list: 12 marker panels with personal data.
Citizen(k) ==
  [ID |-> "kit" \o Itoa(k), Name |-> "name" \o Itoa(k), Label |-> "label" \o Itoa(k),
   Ancestor |-> "ancestor" \o Itoa(k), Origin |-> "origin" \o Itoa(k),
   YstrMarkers |-> [Panel(12, 13) EXCEPT ![5] = 12 + (k % 3)]]

InitPeople ==
  /\ persons \in {[k \in 1 .. n |-> Citizen(k)] : n \in 0 .. MaxCrowd}
  /\ mutationRates = DefaultMutationRates
  /\ matrix = <<>>
  /\ years = <<>>
  /\ modal = <<>>
  /\ reduced = <<>>
  /\ compared = <<>>
  /\ focus = <<>>
  /\ last = <<>>
  /\ heap = <<>>
  /\ call = <<>>

\* main: persons = genetic.Anonymize(persons)
DoAnonymize ==
  /\ call = <<>>
  /\ call' = Called("Anonymize", Anonymize(persons))
  /\ UNCHANGED <<heap, persons, mutationRates, matrix, years, modal, reduced, compared,
                 focus, last>>

\* genetic.Reduce(persons, factor)
DoReduce(factor) ==
  /\ call = <<>>
  /\ call' = Called("Reduce", [factor |-> factor, out |-> Reduce(persons, factor)])
  /\ UNCHANGED <<heap, persons, mutationRates, matrix, years, modal, reduced, compared,
                 focus, last>>

NextPeople ==
  \/ DoAnonymize
  \/ \E factor \in Factors \cup {4, 5, 6} : DoReduce(factor)

SpecPeople == InitPeople /\ [][NextPeople]_vars

\* ------------------------------------------------------- claims, people
\* The list Anonymize returned has the length of the input and, at every
\* index, empty personal data, the label pad \o number and the markers of
\* the input person.
AnonymizedWith(pad(_)) ==
  /\ Len(call[1].result) = Len(persons)
  /\ \A k \in 1 .. Len(persons) :
       LET p == call[1].result[k]
       IN  /\ p.ID = "" /\ p.Name = "" /\ p.Ancestor = "" /\ p.Origin = ""
           /\ p.YstrMarkers = persons[k].YstrMarkers
           /\ Len(p.Label) = 10
           /\ p.Label = pad(10 - Len(Itoa(k))) \o Itoa(k)

\* C15 as stated: Anonymize returns the persons in their order with empty
\* ID, Name, Ancestor and Origin, unchanged markers, and the sequence number
\* padded with zeros to 10 characters as Label.
AnonymizePadsWithZeros ==
  (call # <<>> /\ call[1].op = "Anonymize") => AnonymizedWith(zeros)

\* C15: Anonymize returns the persons in their order with empty ID, Name,
\* Ancestor and Origin, unchanged markers, and the sequence number padded
\* with underscores to 10 characters as Label.
AnonymizePadsWithUnderscores ==
  (call # <<>> /\ call[1].op = "Anonymize") => AnonymizedWith(underscores)

\* Ten persons have been anonymized: the last label has two digits.
AnonymizePadsWithUnderscoresWitness ==
  /\ call # <<>>
  /\ call[1].op = "Anonymize"
  /\ Len(persons) >= 10
  /\ call[1].result[1].Label = "_________1"
  /\ call[1].result[10].Label = "________10"
  /\ persons[10].Origin = "origin10"
  /\ call[1].result[10].YstrMarkers[5] = 13

\* Reduce returned Quotient(len, factor) persons, the persons at the
\* indices 0, factor, 2 factor, ... of the input, and an error exactly when
\* they are fewer than 2 (the list it returns with the error aside).
ReducedByStride ==
  LET factor == call[1].result.factor
      out == call[1].result.out
      n == Len(persons) \div factor
  IN  /\ ~out.panic
      /\ Len(out.result) = n
      /\ out.err <=> n < 2
      /\ ~out.err => \A i \in 0 .. (n - 1) : out.result[i + 1] = persons[i * factor + 1]

\* C16: Reduce keeps every factor-th person, returns an error if and only
\* if fewer than 2 remain, and does not fail in another way, whatever
\* integer factor it is called with.
ReduceKeepsEveryFactorth ==
  (call # <<>> /\ call[1].op = "Reduce") =>
    /\ ~call[1].result.out.panic
    /\ call[1].result.factor >= 1 => ReducedByStride

\* The same for the factors from 1 on.
ReduceKeepsEveryFactorthFromOne ==
  (call # <<>> /\ call[1].op = "Reduce" /\ call[1].result.factor >= 1) => ReducedByStride

\* ------------------------------------------------------ mutation rates
\* A key of the JSON object of a rate file: the InternalName of the entry
\* of YstrMarkerTable with the given index, or a name that is not in the
\* table (index -1). The names of the table are taken to be distinct.
KnownKey(i) == [name |-> "InternalName", index |-> i]
UnknownKey == [name |-> "other", index |-> -1]

\* names[key]: the index of the name; a Go map gives 0 for a missing key.
names(key) == IF key.index \in Slots THEN key.index ELSE 0

\* for key, value := range JSON { result[names[key]] = markerValue }, the
\* keys visited in the given order from the k-th on.
RECURSIVE fillRates(_, _, _, _)
fillRates(file, order, k, result) ==
  IF k > Len(order) THEN result
  ELSE fillRates(file, order, k + 1, [result EXCEPT ![names(order[k])] = file[order[k]]])

\* ReadMutationRates: [rates, err]; a file that cannot be opened or decoded
\* (<<>> here) gives the error and the zero table.
ReadMutationRates(file, order) ==
  IF file = <<>> THEN [rates |-> ZeroMarkers, err |-> TRUE]
  ELSE [rates |-> fillRates(file, order, 1, ZeroMarkers), err |-> FALSE]

\* The keys and the numbers of the rate files.
RateKeys == {KnownKey(0), KnownKey(5), KnownKey(DYS464end), UnknownKey}
RateNumbers == {1, 2}

\* The rate files: JSON objects over some of the keys, and <<>> for a file
\* that is missing or malformed.
RateFiles ==
  {<<>>} \cup UNION {[keys -> RateNumbers] : keys \in (SUBSET RateKeys) \ {{}}}

InitRates ==
  /\ persons = <<>>
  /\ mutationRates = ZeroMarkers
  /\ matrix = <<>>
  /\ years = <<>>
  /\ modal = <<>>
  /\ reduced = <<>>
  /\ compared = <<>>
  /\ focus = <<>>
  /\ last = <<>>
  /\ heap = <<>>
  /\ call = <<>>

\* main: mutationRates, err = genfiles.ReadMutationRates(*mrin)
LoadRates(file, order) ==
  /\ call = <<>>
  /\ LET out == ReadMutationRates(file, order)
     IN  /\ mutationRates' = out.rates
         /\ call' = <<[op |-> "ReadMutationRates", file |-> file, order |-> order,
                       err |-> out.err]>>
  /\ UNCHANGED <<heap, persons, matrix, years, modal, reduced, compared, focus, last>>

\* main: mutationRates = genetic.DefaultMutationRates()
UseDefaultRates ==
  /\ call = <<>>
  /\ mutationRates' = DefaultMutationRates
  /\ call' = <<[op |-> "DefaultMutationRates"]>>
  /\ UNCHANGED <<heap, persons, matrix, years, modal, reduced, compared, focus, last>>

NextRates ==
  \/ \E file \in RateFiles :
       \E order \in Orders(IF file = <<>> THEN {} ELSE DOMAIN file) : LoadRates(file, order)
  \/ UseDefaultRates

SpecRates == InitRates /\ [][NextRates]_vars

\* -------------------------------------------------------- claims, rates
\* The rate table holds the number of the file for every marker named in
\* it and 0 for every other marker.
RatesAsInFile(file) ==
  \A i \in Slots :
    mutationRates[i] = (IF KnownKey(i) \in DOMAIN file THEN file[KnownKey(i)] ELSE 0)

\* C17: after ReadMutationRates every marker whose name is absent from the
\* file has rate 0 and every marker whose name is present has the number
\* given for it; a key that is not a marker name gives an error and changes
\* no rate, in whatever order the keys are visited.
RatesFollowFile ==
  (call # <<>> /\ call[1].op = "ReadMutationRates" /\ call[1].file # <<>>) =>
    /\ RatesAsInFile(call[1].file)
    /\ call[1].err <=> UnknownKey \in DOMAIN call[1].file

\* The same for the files in which every key is a marker name.
RatesFollowFileOfKnownKeys ==
  (call # <<>> /\ call[1].op = "ReadMutationRates" /\ call[1].file # <<>>
     /\ UnknownKey \notin DOMAIN call[1].file) =>
    (RatesAsInFile(call[1].file) /\ ~call[1].err)


\* ------------------------------------------------- claims, contributions
\* What each marker is to add to the sum of the distances and to the number
\* of compared markers, written from the values of the two persons and not
\* from the statements of distance.

\* The positions that are compared one by one.
OrdinaryPositions == {i \in 0 .. (MaxMarkers - 1) : IsOrdinary(i)}

\* The palindromic markers: the positions of each, the position of its
\* mutation rate and the number of markers it counts for.
Regions ==
  { [positions |-> (DYS464start .. DYS464end) \cup (DYS464extStart .. DYS464extEnd),
     end |-> DYS464end, width |-> DYS464end - DYS464start + 1] } \cup
  { [positions |-> r[1] .. r[2], end |-> r[2], width |-> r[2] - r[1] + 1] :
      r \in { <<YCAIIstart, YCAIIend>>, <<CDYstart, CDYend>>,
              <<DYF395S1start, DYF395S1end>>, <<DYS413start, DYS413end>> }
            \cup {palindromicRegions[n] : n \in DOMAIN palindromicRegions} }

\* How often value v occurs in y at the positions S.
Occurs(y, S, v) == Cardinality({i \in S : y[i] = v})

\* The number of positive values of y at S without a partner of their own
\* among the equal values of z: of n equal values of y, the first
\* Occurs(z, S, v) have one.
Unmatched(y, z, S) ==
  Cardinality({i \in S : /\ y[i] > 0
                         /\ Cardinality({j \in S : j <= i /\ y[j] = y[i]})
                              > Occurs(z, S, y[i])})

Observed(y, S) == Cardinality({i \in S : y[i] > 0})

\* The count of a palindromic marker over the positive values of y and z.
PalindromicCount(y, z, S) ==
  IF Observed(y, S) = Observed(z, S) THEN Unmatched(y, z, S)
  ELSE IF Observed(y, S) < Observed(z, S) THEN 1 + Unmatched(y, z, S)
  ELSE 1 + Unmatched(z, y, S)

\* A palindromic marker is compared when its mutation rate is not 0, no
\* value of it is negative and each person has a value of it.
PalindromicCompared(y, z, S, rate) ==
  /\ rate # 0
  /\ \A i \in S : y[i] >= 0 /\ z[i] >= 0
  /\ Observed(y, S) > 0
  /\ Observed(z, S) > 0

OrdinaryCompared(i) == Ystr1[i] > 0 /\ Ystr2[i] > 0 /\ mutationRates[i] > 0

OrdinaryContribution(i) ==
  IF OrdinaryCompared(i) THEN Norm(IAbs(Ystr1[i] - Ystr2[i]), mutationRates[i]) ELSE Zero

CompoundCompared ==
  /\ \A i \in {DYS389i, DYS389ii} : Ystr1[i] > 0 /\ Ystr2[i] > 0
  /\ mutationRates[DYS389ii] > 0

CompoundContribution ==
  IF CompoundCompared
  THEN Norm(IAbs((Ystr1[DYS389ii] - Ystr1[DYS389i]) - (Ystr2[DYS389ii] - Ystr2[DYS389i])),
            mutationRates[DYS389ii])
  ELSE Zero

RegionCompared(R) == PalindromicCompared(Ystr1, Ystr2, R.positions, mutationRates[R.end])

RegionContribution(R) ==
  IF RegionCompared(R)
  THEN Norm(PalindromicCount(Ystr1, Ystr2, R.positions), mutationRates[R.end])
  ELSE Zero

\* The sum of the values of f over the set S.
RECURSIVE SumOver(_, _)
SumOver(f, S) ==
  IF S = {} THEN Zero
  ELSE LET x == CHOOSE y \in S : TRUE
       IN  FAdd(f[x], SumOver(f, S \ {x}))

ContributionSum ==
  LET ordinary == {i \in OrdinaryPositions : OrdinaryContribution(i) # Zero}
      regions == {R \in Regions : RegionContribution(R) # Zero}
  IN  FAdd(SumOver([i \in ordinary |-> OrdinaryContribution(i)], ordinary),
      FAdd(CompoundContribution,
           SumOver([R \in regions |-> RegionContribution(R)], regions)))

ContributionCount ==
  Cardinality({i \in OrdinaryPositions : OrdinaryCompared(i)})
  + (IF CompoundCompared THEN 1 ELSE 0)
  + 2 * Cardinality({R \in Regions : RegionCompared(R) /\ R.width = 2})
  + 3 * Cardinality({R \in Regions : RegionCompared(R) /\ R.width = 3})
  + 4 * Cardinality({R \in Regions : RegionCompared(R) /\ R.width = 4})

\* C18: in DistanceHybrid an ordinary position adds |a[i] - b[i]| / rate[i]
\* to the sum and 1 to the number of compared markers exactly when both
\* values and the rate are positive, and nothing otherwise; the distance is
\* the sum of the contributions of all markers divided by the number of
\* compared markers.
HybridIsSumOverCount ==
  compared # <<>> =>
    /\ \A i \in OrdinaryPositions :
         stepwise(Ystr1[i], Ystr2[i], mutationRates[i])
           = <<OrdinaryContribution(i), IF OrdinaryCompared(i) THEN 1 ELSE 0>>
    /\ compared[1].hybrid.sum = ContributionSum
    /\ compared[1].hybrid.nCompared = ContributionCount
    /\ compared[1].hybrid.distance = FDivInt(ContributionSum, ContributionCount)

\* Two persons with the same twelve markers but for two repeats at an
\* ordinary marker of rate 1, and another marker, of negative rate, that is
\* left out: the distance is 2/11.
HybridIsSumOverCountWitness ==
  /\ compared # <<>>
  /\ \E i \in OrdinaryPositions :
       OrdinaryCompared(i) /\ OrdinaryContribution(i) = FromInt(2) /\ DiffersOnlyAt(i)
  /\ \E i \in OrdinaryPositions : ~OrdinaryCompared(i) /\ Ystr1[i] > 0 /\ Ystr2[i] > 0
  /\ compared[1].hybrid.nCompared = 11
  /\ compared[1].hybrid.distance = <<2, 11>>


\* ---------------------------------------------------- palindromic markers
\* One palindromic marker at a time is given values in two otherwise empty
\* persons and compared as distance compares it.
MaxAlleles == 2

\* Marker values: an invalid one, a missing one and MaxAlleles repeat counts.
Alleles == {-1, 0} \cup (12 .. (11 + MaxAlleles))

PalindromicRates == {-1, 0, 1, 2}

\* The markers that are given values and the positions that receive them:
\* a marker of two positions, one of three and DYS464 with its first extra
\* slot.
Sites ==
  { [marker |-> "YCAII", start |-> YCAIIstart, end |-> YCAIIend,
     positions |-> <<YCAIIstart, YCAIIend>>],
    [marker |-> "DYF399", start |-> DYF399start, end |-> DYF399end,
     positions |-> <<DYF399start, DYF399start + 1, DYF399end>>],
    [marker |-> "DYS464", start |-> DYS464start, end |-> DYS464end,
     positions |-> <<DYS464start, DYS464end, DYS464extStart>>] }

\* The markers of a person who has the given values at the positions of the
\* site and no other.
Placed(site, values) ==
  [i \in Slots |->
     IF \E k \in DOMAIN site.positions : site.positions[k] = i
     THEN values[CHOOSE k \in DOMAIN site.positions : site.positions[k] = i]
     ELSE 0]

\* A rate table with the given rate for the site.
RatesAt(site, rate) == [i \in Slots |-> IF i = site.end THEN rate ELSE 3]

\* The statement of distance that compares the site.
palindromicSite(site, ystr1, ystr2, rates) ==
  IF site.marker = "DYS464" THEN palindromicDYS464(ystr1, ystr2, rates)
  ELSE palindromicAt(ystr1, ystr2, rates, site.start, site.end)

InitPalindromic ==
  /\ persons = <<>>
  /\ mutationRates = DefaultMutationRates
  /\ matrix = <<>>
  /\ years = <<>>
  /\ modal = <<>>
  /\ reduced = <<>>
  /\ compared = <<>>
  /\ focus = <<>>
  /\ last = <<>>
  /\ heap = <<>>
  /\ call = <<>>

\* distances[end] = palindromic(...) for two persons and a rate; the call
\* and <<distance, increment of nCompared>> are recorded.
ComparePalindromic(site, values1, values2, rate) ==
  /\ call' = <<[op |-> "palindromic", site |-> site,
                ystr1 |-> values1, ystr2 |-> values2, rate |-> rate,
                result |-> palindromicSite(site, Placed(site, values1),
                                           Placed(site, values2), RatesAt(site, rate))]>>
  /\ UNCHANGED <<persons, mutationRates, matrix, years, modal, reduced, compared,
                 focus, last, heap>>

NextPalindromic ==
  /\ call = <<>>
  /\ \E site \in Sites, rate \in PalindromicRates :
       \E values1, values2 \in [DOMAIN site.positions -> Alleles] :
         ComparePalindromic(site, values1, values2, rate)

SpecPalindromic == InitPalindromic /\ [][NextPalindromic]_vars

\* --------------------------------------------- claims, palindromic markers
PalindromicCall == call # <<>> /\ call[1].op = "palindromic"

PalindromicCallCompared ==
  PalindromicCompared(call[1].ystr1, call[1].ystr2, DOMAIN call[1].ystr1, call[1].rate)

\* C19: a compared palindromic marker contributes count / rate[end], where,
\* over the positive values of the two persons as multisets, count is the
\* number of values of the first without a partner of their own in the
\* second when the two have as many values, and otherwise 1, whatever the
\* difference in size, plus the number of values of the smaller without a
\* partner of their own in the larger.
PalindromicIsCountOverRate ==
  PalindromicCall /\ PalindromicCallCompared =>
    call[1].result[1] =
      Norm(PalindromicCount(call[1].ystr1, call[1].ystr2, DOMAIN call[1].ystr1),
           call[1].rate)

\* Three values against one, which is among the three, at rate 2: the
\* difference in size counts 1 and the contribution is 1/2.
PalindromicIsCountOverRateWitness ==
  /\ PalindromicCall
  /\ PalindromicCallCompared
  /\ Observed(call[1].ystr1, DOMAIN call[1].ystr1) = 3
  /\ Observed(call[1].ystr2, DOMAIN call[1].ystr2) = 1
  /\ Unmatched(call[1].ystr2, call[1].ystr1, DOMAIN call[1].ystr1) = 0
  /\ call[1].rate = 2
  /\ call[1].result[1] = <<1, 2>>

\* C20: a compared palindromic marker adds the number of its positions in
\* the layout to the number of compared markers, however many values were
\* observed; DYS464 adds 4, also with values in its extra slots; a marker
\* that is not compared adds 0.
PalindromicAddsWidth ==
  PalindromicCall =>
    call[1].result[2] =
      IF PalindromicCallCompared THEN call[1].site.end - call[1].site.start + 1 ELSE 0

\* DYS464 with a value in an extra slot of one person and a single value of
\* the other adds 4.
PalindromicAddsWidthWitness ==
  /\ PalindromicCall
  /\ PalindromicCallCompared
  /\ call[1].site.marker = "DYS464"
  /\ call[1].ystr1[3] > 0
  /\ Observed(call[1].ystr2, DOMAIN call[1].ystr2) = 1
  /\ call[1].result[2] = 4


\* The marker of the call is to be skipped: the rate at its end is 0, a
\* person has no positive value of it, or a value of it is negative.
PalindromicCallSkipped ==
  \/ call[1].rate = 0
  \/ \A k \in DOMAIN call[1].ystr1 : call[1].ystr1[k] <= 0
  \/ \A k \in DOMAIN call[1].ystr2 : call[1].ystr2[k] <= 0
  \/ \E k \in DOMAIN call[1].ystr1 : call[1].ystr1[k] < 0 \/ call[1].ystr2[k] < 0

DistanceIsNeverNegative ==
  compared # <<>> =>
    \A mode \in {compared[1].hybrid, compared[1].infinite} :
      mode.nCompared >= 1 => mode.distance[1] >= 0

\* Ordinary markers and DYS389ii are compared only at a rate above 0, and
\* so is every position that adds to the distance when no palindromic marker
\* has a negative rate.
DistanceIsNeverNegativeAtPositiveRates ==
  compared # <<>> =>
    /\ \A i \in OrdinaryPositions :
         mutationRates[i] <= 0 =>
           \A inf \in BOOLEAN :
             singleDistance(inf, Ystr1[i], Ystr2[i], mutationRates[i]) = <<Zero, 0>>
    /\ mutationRates[DYS389ii] <= 0 =>
         \A inf \in BOOLEAN :
           compoundDYS389ii(Ystr1, Ystr2, mutationRates, inf) = <<Zero, 0>>
    /\ (\A R \in Regions : mutationRates[R.end] >= 0) =>
         \A mode \in {compared[1].hybrid, compared[1].infinite} :
           mode.nCompared >= 1 => mode.distance[1] >= 0


\* ------------------------------------------------------- claims, DYS389
\* C23: DYS389ii adds |(a[DYS389ii] - a[DYS389i]) - (b[DYS389ii] - b[DYS389i])|
\* / rate[DYS389ii] to the sum and 1 to the number of compared markers
\* exactly when DYS389i and DYS389ii are positive for both persons and
\* rate[DYS389ii] > 0, and nothing otherwise; DYS389i is an ordinary marker
\* with its own rate. The two persons are equal at every other marker, so
\* the sum of DistanceHybrid is what the two positions add.
DYS389iiIsCompound ==
  focus # <<>> /\ focus[1].name = "DYS389" =>
    /\ compoundDYS389ii(Ystr1, Ystr2, mutationRates, FALSE)
         = <<CompoundContribution, IF CompoundCompared THEN 1 ELSE 0>>
    /\ compared[1].hybrid.sum = FAdd(OrdinaryContribution(DYS389i), CompoundContribution)
    /\ compared[1].hybrid.nCompared = ContributionCount
    /\ DYS389i \in OrdinaryPositions
    /\ DYS389ii \notin OrdinaryPositions

\* One person has a shorter DYS389i and the rate of DYS389ii is 2: DYS389ii
\* adds 1/2 and DYS389i adds 1.
DYS389iiIsCompoundWitness ==
  /\ focus # <<>>
  /\ focus[1].name = "DYS389"
  /\ CompoundCompared
  /\ Ystr1[DYS389ii] = Ystr2[DYS389ii]
  /\ mutationRates[DYS389ii] = 2
  /\ CompoundContribution = <<1, 2>>
  /\ compared[1].hybrid.sum = <<3, 2>>


\* ----------------------------------------------- claims, infinite alleles
\* What the markers are to add under the infinite alleles model.
OrdinaryContributionInfinite(i) ==
  IF OrdinaryCompared(i) /\ Ystr1[i] # Ystr2[i] THEN Norm(1, mutationRates[i]) ELSE Zero

CompoundContributionInfinite ==
  IF CompoundCompared
     /\ Ystr1[DYS389ii] - Ystr1[DYS389i] # Ystr2[DYS389ii] - Ystr2[DYS389i]
  THEN Norm(1, mutationRates[DYS389ii])
  ELSE Zero

ContributionSumInfinite ==
  LET ordinary == {i \in OrdinaryPositions : OrdinaryContributionInfinite(i) # Zero}
      regions == {R \in Regions : RegionContribution(R) # Zero}
  IN  FAdd(SumOver([i \in ordinary |-> OrdinaryContributionInfinite(i)], ordinary),
      FAdd(CompoundContributionInfinite,
           SumOver([R \in regions |-> RegionContribution(R)], regions)))

\* C24: under the infinite alleles model an ordinary marker with both
\* values and a rate above 0 adds 1/rate[i] when the values differ and 0
\* when they are equal, DYS389ii adds 1/rate when the two differences
\* DYS389ii - DYS389i differ and 0 otherwise, palindromic markers add what
\* they add in the hybrid model, and the number of compared markers is that
\* of the hybrid model.
InfiniteAllelesCountsDifferences ==
  compared # <<>> =>
    /\ \A i \in OrdinaryPositions :
         infinite(Ystr1[i], Ystr2[i], mutationRates[i])
           = <<OrdinaryContributionInfinite(i), IF OrdinaryCompared(i) THEN 1 ELSE 0>>
    /\ compoundDYS389ii(Ystr1, Ystr2, mutationRates, TRUE)
         = <<CompoundContributionInfinite, IF CompoundCompared THEN 1 ELSE 0>>
    /\ compared[1].infinite.sum = ContributionSumInfinite
    /\ compared[1].infinite.nCompared = compared[1].hybrid.nCompared
    /\ compared[1].infinite.distance
         = FDivInt(ContributionSumInfinite, compared[1].hybrid.nCompared)

\* Two persons two repeats apart at one ordinary marker and with different
\* values of a palindromic marker: the ordinary marker adds 1 where the
\* hybrid model has 2, and the palindromic marker adds the same to both.
InfiniteAllelesCountsDifferencesWitness ==
  /\ compared # <<>>
  /\ \E i \in OrdinaryPositions :
       OrdinaryContributionInfinite(i) = FromInt(1) /\ OrdinaryContribution(i) = FromInt(2)
  /\ \E R \in Regions : RegionContribution(R) # Zero
  /\ compared[1].infinite.sum # compared[1].hybrid.sum
  /\ compared[1].infinite.nCompared > 12


\* ----------------------------------------------------- marker statistics
\* The statistics of a marker that was not observed or not selected: the
\* zero value of the struct, with a nil map.
NoStatistics == [FrequencyAmongSamples |-> Zero, ValuesOccurrences |-> <<>>]

\* len(ValuesOccurrences)
NValues(statistics) == Cardinality(DOMAIN statistics.ValuesOccurrences)

\* A Select that keeps the markers of at least nValuesMin values whatever
\* their frequency.
SelectAnyFrequency(s, minFrequency, nValuesMin, nValuesMax) ==
  [NSamples |-> s.NSamples,
   Markers |-> [i \in Slots |->
     IF /\ s.Markers[i].ValuesOccurrences # <<>>
        /\ NValues(s.Markers[i]) >= nValuesMin
        /\ NValues(s.Markers[i]) <= nValuesMax
     THEN s.Markers[i] ELSE NoStatistics]]

\* MarkerStatistics.Select
Select(s, minFrequency, nValuesMin, nValuesMax) ==
  [NSamples |-> s.NSamples,
   Markers |-> [i \in Slots |->
     IF /\ ~FLess(s.Markers[i].FrequencyAmongSamples, minFrequency)
        /\ s.Markers[i].ValuesOccurrences # <<>>
        /\ NValues(s.Markers[i]) >= nValuesMin
        /\ NValues(s.Markers[i]) <= nValuesMax
     THEN s.Markers[i] ELSE NoStatistics]]

\* A MutationRates that divides by the number of all markers.
MutationRatesOfAllMarkers(s) ==
  LET retained == {i \in Slots : s.Markers[i].ValuesOccurrences # <<>>}
  IN  [key \in {KnownKey(i) : i \in retained} |-> Norm(1, Cardinality(Slots))]

\* MarkerStatistics.MutationRates: the members of the JSON object, the
\* name of each marker with a map and the value 1 / nMarkers; "{}" is the
\* object without members.
MutationRates(s) ==
  LET retained == {i \in Slots : s.Markers[i].ValuesOccurrences # <<>>}
      nMarkers == Cardinality(retained)
  IN  [key \in {KnownKey(i) : i \in retained} |-> Norm(1, nMarkers)]

\* A 12 marker panel; one with another value at marker 5 and a fifth value
\* of DYS464; one without marker 0, with an invalid value at marker 3 and a
\* third value at marker 5.
StatisticsSamples ==
  { NewPerson("kitA", Panel(12, 13)),
    NewPerson("kitE", [Panel(12, 13) EXCEPT ![5] = 15, ![DYS464extStart] = 13]),
    NewPerson("kitF", [Panel(12, 13) EXCEPT ![0] = 0, ![3] = -1, ![5] = 14]) }

MinFrequencies == {Zero, <<1, 2>>, FromInt(1)}
NValuesMins == {0, 1, 2}
NValuesMaxs == {1, 2}

\* The heap holds the MarkerStatistics that were made, the last one last.
InitStatistics ==
  /\ persons \in Lists(StatisticsSamples, MaxPersons)
  /\ mutationRates = DefaultMutationRates
  /\ matrix = <<>>
  /\ years = <<>>
  /\ modal = <<>>
  /\ reduced = <<>>
  /\ compared = <<>>
  /\ focus = <<>>
  /\ last = <<>>
  /\ heap = <<>>
  /\ call = <<>>

\* statistics := genetic.NewStatistics(persons)
DoNewStatistics ==
  /\ heap = <<>>
  /\ heap' = <<NewStatistics(persons)>>
  /\ call' = <<[op |-> "NewStatistics", receiver |-> 0, args |-> <<>>,
                before |-> heap, result |-> 1]>>
  /\ UNCHANGED <<persons, mutationRates, matrix, years, modal, reduced, compared,
                 focus, last>>

\* result := s.Select(minFrequency, nValuesMin, nValuesMax) of the newest
\* statistics; a selection is selected again with the same thresholds.
DoSelect(minFrequency, nValuesMin, nValuesMax) ==
  /\ heap # <<>>
  /\ Len(heap) < 3
  /\ call[1].op \in {"NewStatistics", "Select"}
  /\ call[1].op = "Select" => call[1].args = <<minFrequency, nValuesMin, nValuesMax>>
  /\ heap' = Append(heap, Select(heap[Len(heap)], minFrequency, nValuesMin, nValuesMax))
  /\ call' = <<[op |-> "Select", receiver |-> Len(heap),
                args |-> <<minFrequency, nValuesMin, nValuesMax>>,
                before |-> heap, result |-> Len(heap) + 1]>>
  /\ UNCHANGED <<persons, mutationRates, matrix, years, modal, reduced, compared,
                 focus, last>>

\* text := s.MutationRates() of the newest statistics
DoMutationRates ==
  /\ heap # <<>>
  /\ call[1].op # "MutationRates"
  /\ call' = <<[op |-> "MutationRates", receiver |-> Len(heap), args |-> <<>>,
                before |-> heap, result |-> MutationRates(heap[Len(heap)])]>>
  /\ UNCHANGED <<persons, mutationRates, matrix, years, modal, reduced, compared,
                 focus, last, heap>>

NextStatistics ==
  \/ DoNewStatistics
  \/ \E minFrequency \in MinFrequencies, nValuesMin \in NValuesMins,
        nValuesMax \in NValuesMaxs : DoSelect(minFrequency, nValuesMin, nValuesMax)
  \/ DoMutationRates

SpecStatistics == InitStatistics /\ [][NextStatistics]_vars

\* ------------------------------------------------------ claims, statistics
\* The persons that hold value v at position i.
Holders(i, v) == {j \in 1 .. Len(persons) : persons[j].YstrMarkers[i] = v}

\* The persons with a positive value at position i.
Tested(i) == {j \in 1 .. Len(persons) : persons[j].YstrMarkers[i] > 0}

\* C25: for every position the occurrence map of NewStatistics gives each
\* positive value the number of persons that hold it and has no entry for
\* other values, the frequency is the number of persons with a positive
\* value over len(persons) and lies between 0 and 1, and the occurrences of
\* a position sum to that number of persons; for no persons NSamples is 0
\* and every frequency is 0.
StatisticsCountPersons ==
  call # <<>> /\ call[1].op = "NewStatistics" =>
    LET s == heap[call[1].result]
    IN  /\ s.NSamples = Len(persons)
        /\ \A i \in Slots :
             LET map == s.Markers[i].ValuesOccurrences
                 frequency == s.Markers[i].FrequencyAmongSamples
             IN  /\ DOMAIN map = {persons[j].YstrMarkers[i] : j \in Tested(i)}
                 /\ \A v \in DOMAIN map : map[v] = Cardinality(Holders(i, v))
                 /\ Cardinality(UNION {{<<v, k>> : k \in 1 .. map[v]} : v \in DOMAIN map})
                      = Cardinality(Tested(i))
                 /\ IF persons = <<>> THEN frequency = Zero
                    ELSE frequency = Norm(Cardinality(Tested(i)), Len(persons))
                 /\ IsFinite(frequency)
                 /\ ~FLess(frequency, Zero)
                 /\ ~FLess(FromInt(1), frequency)

\* Three persons with values 13, 15 and 14 at marker 5 and two with marker 0.
StatisticsCountPersonsWitness ==
  /\ call # <<>>
  /\ call[1].op = "NewStatistics"
  /\ Len(persons) = 3
  /\ heap[1].Markers[0].FrequencyAmongSamples = <<2, 3>>
  /\ heap[1].Markers[0].ValuesOccurrences[13] = 2
  /\ DOMAIN heap[1].Markers[5].ValuesOccurrences = {13, 14, 15}
  /\ heap[1].Markers[3].FrequencyAmongSamples = <<2, 3>>

\* No persons: NSamples is 0 and no marker has a frequency or a map.
StatisticsOfNobody ==
  /\ call # <<>>
  /\ call[1].op = "NewStatistics"
  /\ persons = <<>>
  /\ heap[1].NSamples = 0
  /\ \A i \in Slots : heap[1].Markers[i] = NoStatistics


\* The thresholds keep the marker: its frequency is at least minFrequency
\* and the number of its values lies between nValuesMin and nValuesMax.
MeetsThresholds(statistics, args) ==
  /\ ~FLess(statistics.FrequencyAmongSamples, args[1])
  /\ NValues(statistics) >= args[2]
  /\ NValues(statistics) <= args[3]

Retained(s) == {i \in Slots : NValues(s.Markers[i]) > 0}

\* C27: the rates of MutationRates contain exactly the markers with an
\* occurrence map that is not empty, each with the weight 1 / (number of
\* those markers), so that the weights sum to 1 and every other marker is
\* absent; without such a marker the rates are empty and every weight is a
\* finite number.
RatesWeighRetainedEqually ==
  call # <<>> /\ call[1].op = "MutationRates" =>
    LET s == heap[call[1].receiver]
        rates == call[1].result
        n == Cardinality(Retained(s))
    IN  /\ DOMAIN rates = {KnownKey(i) : i \in Retained(s)}
        /\ Cardinality(DOMAIN rates) = n
        /\ \A key \in DOMAIN rates :
             /\ IsFinite(rates[key])
             /\ rates[key] = <<1, n>>
             /\ FMul(FromInt(n), rates[key]) = FromInt(1)
        /\ n = 0 => rates = <<>>

\* The rates of a selection that dropped a marker: the selected markers
\* share the weight and the dropped marker is absent.
RatesWeighRetainedEquallyWitness ==
  /\ call # <<>>
  /\ call[1].op = "MutationRates"
  /\ Len(heap) >= 2
  /\ Cardinality(DOMAIN call[1].result) >= 2
  /\ \E i \in Retained(heap[1]) : KnownKey(i) \notin DOMAIN call[1].result
  /\ \A key \in DOMAIN call[1].result :
       call[1].result[key] = <<1, Cardinality(DOMAIN call[1].result)>>

\* Nothing is retained: the rates are the empty object.
RatesOfNoMarker ==
  /\ call # <<>>
  /\ call[1].op = "MutationRates"
  /\ Retained(heap[call[1].receiver]) = {}
  /\ call[1].result = <<>>


\* ------------------------------------------------------ claims, symmetry
\* C28: DistanceHybrid and DistanceInfiniteAlleles of two persons are the
\* same in both orders of the persons, sum, number of compared markers and
\* distance, also for palindromic markers with as many or with different
\* numbers of values.
DistanceIsSymmetric ==
  compared # <<>> => Compare(<<persons[2], persons[1]>>, mutationRates) = compared

\* Two different persons with five and with four values of DYS464, at a
\* distance that is not 0.
DistanceIsSymmetricWitness ==
  /\ compared # <<>>
  /\ Ystr1 # Ystr2
  /\ Observed(Ystr1, RegionOf(DYS464start)) = 5
  /\ Observed(Ystr2, RegionOf(DYS464start)) = 4
  /\ RegionContribution(CHOOSE R \in Regions : R.end = DYS464end) # Zero
  /\ IsFinite(compared[1].hybrid.distance)
  /\ compared[1].hybrid.distance # Zero
  /\ Compare(<<persons[2], persons[1]>>, mutationRates) = compared


\* ------------------------------------------------- claims, modal haplotype
\* C29: the person of ModalHaplotype has the value 0 in the four extra
\* slots of DYS464, also when every person has the same value there; its
\* ID, Name, Ancestor and Origin are "modal" and its Label is "_____modal",
\* of 10 characters.
ModalHasNoExtraSlots ==
  modal # <<>> =>
    /\ \A i \in DYS464extStart .. DYS464extEnd : modal[1].person.YstrMarkers[i] = 0
    /\ modal[1].person.ID = "modal"
    /\ modal[1].person.Name = "modal"
    /\ modal[1].person.Ancestor = "modal"
    /\ modal[1].person.Origin = "modal"
    /\ modal[1].person.Label = "_____modal"
    /\ Len(modal[1].person.Label) = 10

\* Two persons or more, all with the same value in the first extra slot.
ModalHasNoExtraSlotsWitness ==
  /\ modal # <<>>
  /\ Len(persons) >= 2
  /\ \A k \in 1 .. Len(persons) : persons[k].YstrMarkers[DYS464extStart] = 13
  /\ modal[1].person.YstrMarkers[DYS464extStart] = 0
  /\ modal[1].person.YstrMarkers[0] = 13


\* ------------------------------------------------ claims, array indices
\* C30: ReduceToMarkerSet(persons, n) reads and writes no index outside the
\* marker array for any n >= 0, so that it returns a list and an optional
\* error and ends in no run-time panic.
ReduceToMarkerSetReturns ==
  (reduced # <<>> /\ reduced[1].n >= 0) => ~reduced[1].out.panic

\* Up to the length of the marker array the indices stay inside it.
ReduceToMarkerSetReturnsUpToLength ==
  (reduced # <<>> /\ reduced[1].n \in 0 .. (MaxMarkers + NDYS464ext)) =>
    ~reduced[1].out.panic
====
